---- MODULE Spec2Model ----
(***************************************************************************)
(* Model of the Rebuild scheduler (scheduler.c, carried in src/src/trace.h *)
(* lines 48-852), the recipe state (recipe.h / recipe.c), the trace store  *)
(* (trace.c, carried in src/src/recipe.c lines 207-644) and the depend_on  *)
(* and register_dep host functions of the script bridge (umka_bridge.c).   *)
(*                                                                         *)
(* Execution is synchronous: scheduler_build calls scheduler_run, which    *)
(* pops recipes and runs each target function to its end with umkaCall.    *)
(* The control position is kept in pc: "idle" (no scheduler call is        *)
(* active), "run" (between two iterations of the loop of scheduler_run)    *)
(* and "script" (inside the target function of recipe `current`).          *)
(* The script is the environment: at each step it may call depend_on,      *)
(* register_dep or sys, return normally, or raise an error.                *)
(*                                                                         *)
(* Spec is one run of the program, SpecRebuild adds further builds, new    *)
(* processes over the same store and changes of files, code and tool, and  *)
(* SpecTrace saves and loads sample traces (trace_save, trace_load).       *)
(*                                                                         *)
(* The library functions are exercised on their own: SpecDamage loads      *)
(* trace files that were damaged, SpecValidate validates traces against    *)
(* changing files, SpecKey computes request keys (recipe.c), SpecTree and  *)
(* SpecHex hash directories and print hashes (hash.c), SpecStorage and     *)
(* SpecTmp ask the store for paths from two processes (storage.c), and     *)
(* SpecTool loads tools from two threads (tool.c).                         *)
(* SpecMap sets, reads and removes the keys of one Map (map.c),            *)
(* SpecRegistry registers targets in a TargetRegistry (target_registry.c), *)
(* and SpecMain follows main from its command line to its return, with the *)
(* objects it allocates and releases (main.c).  SpecLive is Spec with the  *)
(* fairness of sequential code, for the termination of scheduler_run.      *)
(***************************************************************************)
EXTENDS Integers, Sequences, FiniteSets, TLC

\* ------------------------------------------------------------------------
\* Bounds of the exploration
\* ------------------------------------------------------------------------
\* Spec: every script behaviour of up to MaxCalls host calls, in the one
\* scheduler_build call that main makes
MaxCalls == 4
\* SpecRebuild: up to RebuildBuilds scheduler_build calls, on one scheduler
\* or in successive processes, with up to RebuildCalls host calls
RebuildCalls == 1
RebuildBuilds == 3
\* SpecMain: command lines of up to MaxArgs words after the program name
MaxArgs == 2
\* processes run one after the other over the same store; file changes
MaxSessions == 2
MaxMods == 1
\* SpecTrace: traces of up to MaxTraceDeps dependencies
MaxTraceDeps == 2
\* SpecDamage: a saved file is cut at each of its first and last TruncEdge
\* positions and at every TruncStride-th position in between
TruncEdge == 8
\* SpecValidate: traces of up to MaxValidateDeps dependencies
MaxValidateDeps == 3
\* SpecKey: recipes of up to MaxKeyDeps dependencies
MaxKeyDeps == 3
\* SpecTree: directories of up to MaxTreeEntries entries
MaxTreeEntries == 3
\* SpecStorage, SpecTmp: up to MaxStorageCalls calls by each caller, over
\* MaxClock seconds
MaxStorageCalls == 2
MaxClock == 1
\* SpecTool: up to MaxLoads tool_manager_load_tool calls by each caller
MaxLoads == 2
\* SpecLive: every script behaviour of up to MaxLiveCalls host calls
MaxLiveCalls == 3
\* SpecMap: the Map grows up to a capacity of MaxMapCapacity entries
MaxMapCapacity == 16
\* SpecRegistry: the registry grows up to MaxTargetsCapacity entries
MaxTargetsCapacity == 32

\* ------------------------------------------------------------------------
\* Universe
\* ------------------------------------------------------------------------
Targets == {"A", "B", "C", "D"}
Paths == {"h.txt"}
\* the files that a trace can name as dependencies
Files == Paths \cup {"a.c", "b.h"}

NULL == "NULL"
NULL_PATH == << >>

\* hash_data over the names the scheduler hashes, taken collision-free:
\* distinct inputs get distinct non-zero values; 0 is the all-zero Hash.
hash_data(name) ==
    CASE name = "A" -> 1
      [] name = "B" -> 2
      [] name = "C" -> 3
      [] name = "D" -> 4
      [] name = "h.txt" -> 5
      [] name = "a.c" -> 6
      [] name = "b.h" -> 7
      [] name = "" -> 9
      [] OTHER -> 8

ZeroHash == 0
Keys == {ZeroHash} \cup {hash_data(t) : t \in Targets}

\* the NULL that trace_load returns
NoTrace == [request_key |-> -1, deps |-> << >>, output_tree_hash |-> -1,
            cpu_time_ms |-> -1, wall_time_ms |-> -1]

\* no file at the trace path
NoFile == << >>

\* "RBTR"
TRACE_MAGIC == << 82, 66, 84, 82 >>
TRACE_VERSION == 1
\* the longest dependency path that trace_load accepts
MaxPathLen == 4096
\* the bytes of a Hash
HashLen == 32

VARIABLES
    state,          \* Recipe.state per target; "None": no Recipe in sched->recipes
    request_key,    \* Recipe.request_key
    declared_deps,  \* Recipe.declared_deps
    pending_deps,   \* Recipe.pending_deps
    output_dir,     \* Recipe.output_dir (NULL_PATH when unset)
    completed,      \* sched->completed: target -> output path
    waiting,        \* sched->waiting: target -> WaiterList (head first)
    ready_queue,    \* sched->ready_queue
    failed,         \* sched->failed
    target_error,   \* sched->target_error
    active_count,   \* sched->active_count
    store,          \* traces/ of the Storage: request key -> content of the file
    fs,             \* content of the dependency files (0: missing)
    registry,       \* names present in the TargetRegistry
    depend_on_cb,   \* g_callbacks.depend_on is set
    code,           \* per target: version of the script code that defines it
    tool,           \* version of the binary of the tool that sys commands run
    pc, current, result,
    calls, builds, sessions, mods,
    limits,         \* the bounds of the exploration in force
    exec_count,     \* per target: executions of its function in this session
    declared_order, \* per target: dependency names in order of first declaration
    recorded,       \* per target: <<name, content>> of each declared dependency
                    \* at its last successful completion
    first_failed,   \* first recipe that failed in this session
    trace_writes,   \* <<target, request key>> of each trace_save of this session
    spawned,        \* recipes that ran a subprocess (sys) in this session
    built_env,      \* per target: code and tool versions at its last successful
                    \* completion (tool 0: no subprocess was run)
    last_build,     \* target of the last scheduler_build; ok: it succeeded and
                    \* no file, code or tool changed since
    mem_trace,      \* SpecTrace: the Trace in memory that is saved
    loaded,         \* SpecTrace: what trace_load returned
    io_pc,          \* SpecTrace: "new", "saved", "loaded" ("off" elsewhere)
    damage,         \* SpecDamage: what happened to the saved file before the load
    fn_arg,         \* the argument of the library function under test
    fn_ret,         \* what the library function returned
    disk,           \* the paths that exist: directories of the store, tool binaries
    tools,          \* ToolManager.tools: <<name, ToolModule>> pairs
    caller,         \* per concurrent caller: its call in progress and its position
    clock,          \* time(NULL), in seconds since the start
    issued,         \* the results of the calls that have returned
    big_map,        \* the Map under test, registry->targets: entries, capacity,
                    \* size, tombstones
    contents,       \* per key: what the calls made on the Map so far leave it
    main,           \* main: its position, its locals and the fields it sets
    heap,           \* per subsystem object of main: created, times released
    last_op         \* the operation performed by the last step

vars == << state, request_key, declared_deps, pending_deps, output_dir,
           completed, waiting, ready_queue, failed, target_error, active_count,
           store, fs, registry, depend_on_cb, pc, current, result,
           calls, builds, sessions, mods, limits, exec_count, declared_order, recorded,
           first_failed, trace_writes, last_op, code, tool, spawned, built_env,
           last_build, mem_trace, loaded, io_pc, damage, fn_arg, fn_ret,
           disk, tools, caller, clock, issued, big_map, contents, main, heap >>

recipeVars == << state, request_key, declared_deps, pending_deps, output_dir >>
schedVars == << completed, waiting, ready_queue, failed, target_error, active_count >>
envVars == << store, fs, registry, depend_on_cb, limits, code, tool >>
countVars == << calls, builds, sessions, mods >>
callVars == << disk, tools, caller, clock, issued >>
\* the Map under test and the objects of main
unitVars == << big_map, contents, main, heap >>
libVars == << fn_arg, fn_ret, callVars, unitVars >>
ioVars == << mem_trace, loaded, io_pc, damage >>
traceVars == << ioVars, libVars >>
\* the variables of the scheduler, its recipes and its environment
buildVars == << recipeVars, schedVars, envVars, countVars, pc, current, result,
                exec_count, declared_order, recorded, first_failed, trace_writes,
                last_op, spawned, built_env, last_build >>

Op(op, recipe, arg, hit) == [op |-> op, recipe |-> recipe, arg |-> arg, hit |-> hit]

\* ------------------------------------------------------------------------
\* Files and hashes
\* ------------------------------------------------------------------------
FileContent(p) == IF p \in Files THEN fs[p] ELSE 0

\* the hash of a file or tree is a function of its content
hash_content(c) == 10 + c

\* hash_file / hash_tree of an existing path
hash_file(p) == hash_content(FileContent(p))

\* ------------------------------------------------------------------------
\* Trace (trace.c)
\* ------------------------------------------------------------------------
trace_create(key) ==
    [request_key |-> key, deps |-> << >>, output_tree_hash |-> ZeroHash,
     cpu_time_ms |-> 0, wall_time_ms |-> 0]

trace_add_dependency(t, path, hash) ==
    [t EXCEPT !.deps = Append(@, [path |-> path, hash |-> hash])]

\* a walk that goes on after a dependency that changed
RECURSIVE ValidateWalkAll(_, _, _)
ValidateWalkAll(deps, i, hashed) ==
    IF i > Len(deps) THEN [valid |-> TRUE, hashed |-> hashed]
    ELSE IF FileContent(deps[i].path) = 0 THEN [valid |-> FALSE, hashed |-> hashed]
    ELSE IF hash_file(deps[i].path) # deps[i].hash
         THEN [ValidateWalkAll(deps, i + 1, hashed + 1) EXCEPT !.valid = FALSE]
    ELSE ValidateWalkAll(deps, i + 1, hashed + 1)

\* a walk that passes over a dependency that is missing
RECURSIVE ValidateWalkSkipsMissing(_, _, _)
ValidateWalkSkipsMissing(deps, i, hashed) ==
    IF i > Len(deps) THEN [valid |-> TRUE, hashed |-> hashed]
    ELSE IF FileContent(deps[i].path) = 0
         THEN ValidateWalkSkipsMissing(deps, i + 1, hashed)
    ELSE IF hash_file(deps[i].path) # deps[i].hash
         THEN [valid |-> FALSE, hashed |-> hashed + 1]
    ELSE ValidateWalkSkipsMissing(deps, i + 1, hashed + 1)

\* the loop of trace_validate from dependency i on: the result, and the
\* number of hash_file / hash_tree calls made (hashed counts those before i)
RECURSIVE ValidateWalk(_, _, _)
ValidateWalk(deps, i, hashed) ==
    IF i > Len(deps) THEN [valid |-> TRUE, hashed |-> hashed]
    ELSE IF FileContent(deps[i].path) = 0 THEN [valid |-> FALSE, hashed |-> hashed]
    ELSE IF hash_file(deps[i].path) # deps[i].hash
         THEN [valid |-> FALSE, hashed |-> hashed + 1]
    ELSE ValidateWalk(deps, i + 1, hashed + 1)

ValidateFrom(deps, i) == ValidateWalk(deps, i, 0).valid

trace_validate(t) == ValidateFrom(t.deps, 1)

\* trace_save: the content written to the file of t.request_key. A Hash and
\* a fixed-width integer are one element each, a path is its bytes.
RECURSIVE WriteDeps(_, _)
WriteDeps(deps, i) ==
    IF i > Len(deps) THEN << >>
    ELSE << Len(deps[i].path) >> \o deps[i].path \o << deps[i].hash >>
         \o WriteDeps(deps, i + 1)

trace_save(t) ==
    TRACE_MAGIC \o << TRACE_VERSION, t.request_key, Len(t.deps) >>
    \o WriteDeps(t.deps, 1)
    \o << t.output_tree_hash, t.cpu_time_ms, t.wall_time_ms >>

\* the loop of trace_load over the dependencies: n records from position pos
\* of f are added to t; ok is false when a read or the length check fails
RECURSIVE ReadDepsNoLimit(_, _, _, _)
ReadDepsNoLimit(f, pos, n, t) ==
    IF n = 0 THEN [ok |-> TRUE, pos |-> pos, trace |-> t]
    ELSE IF pos > Len(f) THEN [ok |-> FALSE, pos |-> pos, trace |-> t]
    ELSE IF pos + f[pos] + 1 > Len(f) THEN [ok |-> FALSE, pos |-> pos, trace |-> t]
    ELSE ReadDepsNoLimit(f, pos + f[pos] + 2, n - 1,
                         trace_add_dependency(t, SubSeq(f, pos + 1, pos + f[pos]),
                                              f[pos + f[pos] + 1]))

RECURSIVE ReadDeps(_, _, _, _)
ReadDeps(f, pos, n, t) ==
    IF n = 0 THEN [ok |-> TRUE, pos |-> pos, trace |-> t]
    ELSE IF pos > Len(f) THEN [ok |-> FALSE, pos |-> pos, trace |-> t]
    ELSE IF f[pos] > MaxPathLen THEN [ok |-> FALSE, pos |-> pos, trace |-> t]
    ELSE IF pos + f[pos] + 1 > Len(f) THEN [ok |-> FALSE, pos |-> pos, trace |-> t]
    ELSE ReadDeps(f, pos + f[pos] + 2, n - 1,
                  trace_add_dependency(t, SubSeq(f, pos + 1, pos + f[pos]),
                                       f[pos + f[pos] + 1]))

\* trace_load from the opened file f
trace_read(key, f) ==
    IF Len(f) < 4 \/ SubSeq(f, 1, 4) # TRACE_MAGIC THEN NoTrace
    ELSE IF Len(f) < 5 \/ f[5] # TRACE_VERSION THEN NoTrace
    ELSE IF Len(f) < 6 \/ f[6] # key THEN NoTrace
    ELSE IF Len(f) < 7 THEN NoTrace
    ELSE LET r == ReadDeps(f, 8, f[7], trace_create(key)) IN
         IF ~r.ok \/ r.pos + 2 > Len(f) THEN NoTrace
         ELSE [r.trace EXCEPT !.output_tree_hash = f[r.pos],
                              !.cpu_time_ms = f[r.pos + 1],
                              !.wall_time_ms = f[r.pos + 2]]

trace_load(key) ==
    IF store[key] = NoFile THEN NoTrace ELSE trace_read(key, store[key])

\* ------------------------------------------------------------------------
\* Scheduler helpers
\* ------------------------------------------------------------------------
OutDir(t) == << "outputs", t >>

\* no path is published for a recipe without an output directory
PublishedPathIfSet(t, dirs) == dirs[t]

PublishedPath(t, dirs) == IF dirs[t] # NULL_PATH THEN dirs[t] ELSE << "outputs" >>

scheduler_get_recipe(st, t) ==
    IF st[t] = "None" THEN [st EXCEPT ![t] = "Pending"] ELSE st

\* the node is not linked into the list
waiter_list_add_dropped(list, r) == list

waiter_list_add(list, r) == << r >> \o list

\* the head node stays in the queue
queue_pop_keeps_head(q) == q

\* the queue that queue_pop leaves; it returns Head(q)
queue_pop(q) == Tail(q)

\* map_create was not called: there is no Map
NoMap == [entries |-> << >>, capacity |-> 0, size |-> 0, tombstones |-> 0]

\* the keys of the Map under test (test_map: "key_%d")
MapKeys == {"key_0", "key_1", "key_2", "key_4"}

\* a key that was never set or was removed
Absent == [present |-> FALSE, value |-> NULL]

\* the objects that main and scheduler_create allocate: the Storage, the
\* ToolManager of main, the ToolManager of scheduler_create, the Scheduler,
\* the path of the build file, the script instance and the TargetRegistry
Objects == {"storage", "tool_mgr", "sched_tools", "scheduler", "build_file",
            "umka", "registry"}

\* main has not started
MainOff == [pc |-> "off", storage |-> NULL, tool_mgr |-> NULL, scheduler |-> NULL,
            build_file |-> NULL, umka |-> NULL, target_name |-> NULL,
            registry |-> NULL, sched_tools |-> NULL, sched_registry |-> NULL,
            exit_code |-> 0]

NoObject == [created |-> FALSE, released |-> 0]

Start ==
    /\ state = [t \in Targets |-> "None"]
    /\ request_key = [t \in Targets |-> ZeroHash]
    /\ declared_deps = [t \in Targets |-> {}]
    /\ pending_deps = [t \in Targets |-> {}]
    /\ output_dir = [t \in Targets |-> NULL_PATH]
    /\ completed = [t \in Targets |-> NULL_PATH]
    /\ waiting = [t \in Targets |-> << >>]
    /\ ready_queue = << >>
    /\ failed = FALSE
    /\ target_error = NULL
    /\ active_count = 0
    /\ store = [k \in Keys |-> NoFile]
    /\ fs = [p \in Files |-> 1]
    /\ pc = "idle"
    /\ current = NULL
    /\ result = "none"
    /\ calls = 0
    /\ builds = 0
    /\ sessions = 1
    /\ mods = 0
    /\ exec_count = [t \in Targets |-> 0]
    /\ declared_order = [t \in Targets |-> << >>]
    /\ recorded = [t \in Targets |-> << >>]
    /\ first_failed = NULL
    /\ trace_writes = {}
    /\ last_op = Op("init", NULL, NULL, FALSE)
    /\ code = [t \in Targets |-> 1]
    /\ tool = 1
    /\ spawned = {}
    /\ built_env = [t \in Targets |-> [code |-> 0, tool |-> 0]]
    /\ last_build = [target |-> NULL, ok |-> FALSE]
    /\ big_map = NoMap
    /\ contents = [k \in MapKeys |-> Absent]
    /\ main = MainOff
    /\ heap = [o \in Objects |-> NoObject]

\* no trace is under test
\* no concurrent caller is at work
CallOff ==
    /\ disk = {}
    /\ tools = {}
    /\ caller = NULL
    /\ clock = 0
    /\ issued = {}

LibOff == fn_arg = NULL /\ fn_ret = NULL /\ CallOff

TraceOff ==
    /\ mem_trace = NoTrace /\ loaded = NoTrace /\ io_pc = "off" /\ damage = "none"
    /\ LibOff

\* no trace is saved or loaded
NoTraceFile == mem_trace = NoTrace /\ loaded = NoTrace /\ damage = "none"

\* no build is made: the scheduler stays as scheduler_create leaves it
SchedulerOff ==
    /\ Start
    /\ registry = Targets
    /\ depend_on_cb = TRUE
    /\ limits = [calls |-> 0, repeat |-> FALSE, sessions |-> 1]

Init ==
    /\ Start
    /\ TraceOff
    /\ registry = Targets
    /\ depend_on_cb = TRUE
    /\ limits = [calls |-> MaxCalls, repeat |-> FALSE, sessions |-> MaxSessions]

InitLive ==
    /\ Start
    /\ TraceOff
    /\ registry = Targets
    /\ depend_on_cb = TRUE
    /\ limits = [calls |-> MaxLiveCalls, repeat |-> FALSE, sessions |-> MaxSessions]

InitRebuild ==
    /\ Start
    /\ TraceOff
    /\ registry \in {Targets, Targets \ {"D"}}
    /\ depend_on_cb \in BOOLEAN
    /\ limits = [calls |-> RebuildCalls, repeat |-> TRUE, sessions |-> MaxSessions]

\* ------------------------------------------------------------------------
\* scheduler_check_cache: the probe of the root target of a build
\* ------------------------------------------------------------------------
ProbeKey(r) == hash_data(r)

CacheHit(r) ==
    LET trace == trace_load(ProbeKey(r))
    IN  trace # NoTrace /\ trace_validate(trace)

\* scheduler_build
SchedulerBuild(t) ==
    /\ UNCHANGED traceVars
    /\ pc = "idle"
    /\ IF limits.repeat THEN builds < RebuildBuilds ELSE builds = 0
    /\ builds' = builds + 1
    /\ LET st1 == scheduler_get_recipe(state, t) IN
       IF completed[t] # NULL_PATH
       THEN /\ state' = st1
            /\ result' = "OK"
            /\ last_build' = [target |-> t, ok |-> TRUE]
            /\ last_op' = Op("build_done", t, NULL, FALSE)
            /\ UNCHANGED << request_key, completed, ready_queue, pc >>
       ELSE /\ request_key' = [request_key EXCEPT ![t] = ProbeKey(t)]
            /\ IF CacheHit(t)
               THEN /\ state' = [st1 EXCEPT ![t] = "Complete"]
                    /\ completed' = [completed EXCEPT ![t] = PublishedPath(t, output_dir)]
                    /\ result' = "OK"
                    /\ last_build' = [target |-> t, ok |-> TRUE]
                    /\ last_op' = Op("probe", t, NULL, TRUE)
                    /\ UNCHANGED << ready_queue, pc >>
               ELSE /\ state' = st1
                    /\ ready_queue' = Append(ready_queue, t)
                    /\ pc' = "run"
                    /\ result' = "none"
                    /\ last_build' = [target |-> t, ok |-> FALSE]
                    /\ last_op' = Op("probe", t, NULL, FALSE)
                    /\ UNCHANGED completed
    /\ UNCHANGED << declared_deps, pending_deps, output_dir, waiting, failed,
                    target_error, active_count, envVars, current, calls, sessions, mods,
                    exec_count, declared_order, recorded, first_failed, trace_writes,
                    spawned, built_env >>

\* ------------------------------------------------------------------------
\* scheduler_run: one iteration of the loop, or its exit
\* ------------------------------------------------------------------------
\* variant: the loop goes on after a failure
LoopGuardIgnoresFailure == ready_queue # << >>

LoopGuard == ready_queue # << >> /\ ~failed

\* variant: a popped recipe is executed whatever its state
SkipCompleteNever(r) == FALSE

SkipComplete(r) == state[r] = "Complete"

\* pop of a recipe that is already complete
RunSkip ==
    /\ UNCHANGED traceVars
    /\ pc = "run"
    /\ LoopGuard
    /\ SkipComplete(Head(ready_queue))
    /\ ready_queue' = queue_pop(ready_queue)
    /\ last_op' = Op("skip", Head(ready_queue), NULL, FALSE)
    /\ UNCHANGED << recipeVars, completed, waiting, failed, target_error,
                    active_count, envVars, pc, current, result, countVars,
                    exec_count, declared_order, recorded, first_failed, trace_writes,
                    spawned, built_env, last_build >>

\* pop and scheduler_execute_recipe up to the call of the target function
RunExecute ==
    /\ UNCHANGED traceVars
    /\ pc = "run"
    /\ LoopGuard
    /\ ~SkipComplete(Head(ready_queue))
    /\ LET r == Head(ready_queue) IN
       /\ ready_queue' = queue_pop(ready_queue)
       /\ state' = [state EXCEPT ![r] = "Running"]
       /\ active_count' = active_count + 1
       /\ output_dir' = [output_dir EXCEPT ![r] = IF @ = NULL_PATH THEN OutDir(r) ELSE @]
       /\ exec_count' = [exec_count EXCEPT ![r] = @ + 1]
       /\ current' = r
       /\ pc' = "script"
       /\ last_op' = Op("execute", r, NULL, FALSE)
    /\ UNCHANGED << request_key, declared_deps, pending_deps, completed, waiting,
                    failed, target_error, envVars, result, countVars,
                    declared_order, recorded, first_failed, trace_writes,
                    spawned, built_env, last_build >>

RunExit ==
    /\ UNCHANGED traceVars
    /\ pc = "run"
    /\ ~LoopGuard
    /\ result' = IF failed THEN "EXEC" ELSE "OK"
    /\ pc' = "idle"
    /\ last_build' = [last_build EXCEPT !.ok = ~failed]
    /\ last_op' = Op("run_exit", NULL, NULL, FALSE)
    /\ UNCHANGED << recipeVars, schedVars, envVars, current, countVars,
                    exec_count, declared_order, recorded, first_failed, trace_writes,
                    spawned, built_env >>

\* a further scheduler_run call on the same scheduler (main.c, step 8); with
\* nothing to pop the loop body is not entered and the call returns at once
RunAgain ==
    /\ UNCHANGED traceVars
    /\ pc = "idle"
    /\ IF LoopGuard
       THEN /\ pc' = "run"
            /\ UNCHANGED result
       ELSE /\ result' = IF failed THEN "EXEC" ELSE "OK"
            /\ UNCHANGED pc
    /\ last_op' = Op("run_again", NULL, NULL, FALSE)
    /\ UNCHANGED << recipeVars, schedVars, envVars, current, countVars,
                    exec_count, declared_order, recorded, first_failed, trace_writes,
                    spawned, built_env, last_build >>

\* ------------------------------------------------------------------------
\* Host functions called by the running script (umka_bridge.c)
\* ------------------------------------------------------------------------
ScriptRunning == pc = "script" /\ current \in registry

recipe_add_dependency(deps, r, name) == [deps EXCEPT ![r] = @ \cup {name}]

FirstDeclared(order, r, name) ==
    IF name \in declared_deps[r] THEN order ELSE [order EXCEPT ![r] = Append(@, name)]

\* the completed map is not consulted: a dependency that is Complete is
\* waited for as one that is in progress
scheduler_on_depend_request_waits_for_complete(r, t) ==
    /\ declared_deps' = recipe_add_dependency(declared_deps, r, t)
    /\ pending_deps' = recipe_add_dependency(pending_deps, r, t)
    /\ declared_order' = FirstDeclared(declared_order, r, t)
    /\ last_op' = Op("depend_on", r, t, completed[t] # NULL_PATH)
    /\ LET st1 == scheduler_get_recipe(state, t) IN
       /\ state' = [st1 EXCEPT ![r] = "Suspended"]
       /\ waiting' = [waiting EXCEPT ![t] = waiter_list_add(@, r)]
       /\ ready_queue' = IF st1[t] = "Pending" THEN Append(ready_queue, t)
                         ELSE ready_queue

\* scheduler_on_depend_request(sched, r, t); its return value is
\* completed[t] as read on the taken branch
scheduler_on_depend_request(r, t) ==
    /\ declared_deps' = recipe_add_dependency(declared_deps, r, t)
    /\ pending_deps' = recipe_add_dependency(pending_deps, r, t)
    /\ declared_order' = FirstDeclared(declared_order, r, t)
    /\ IF completed[t] # NULL_PATH
       THEN /\ last_op' = Op("depend_on", r, t, TRUE)
            /\ UNCHANGED << state, waiting, ready_queue >>
       ELSE LET st1 == scheduler_get_recipe(state, t) IN
            /\ last_op' = Op("depend_on", r, t, FALSE)
            /\ IF st1[t] = "Complete"
               THEN /\ state' = st1
                    /\ UNCHANGED << waiting, ready_queue >>
               ELSE IF st1[t] = "Pending"
               THEN /\ state' = [st1 EXCEPT ![r] = "Suspended"]
                    /\ waiting' = [waiting EXCEPT ![t] = waiter_list_add(@, r)]
                    /\ ready_queue' = Append(ready_queue, t)
               ELSE /\ state' = [st1 EXCEPT ![r] = "Suspended"]
                    /\ waiting' = [waiting EXCEPT ![t] = waiter_list_add(@, r)]
                    /\ UNCHANGED ready_queue

\* umka_ffi_rebuild_depend_on: the call returns to the script on every path
FfiDependOn(t) ==
    /\ UNCHANGED traceVars
    /\ ScriptRunning
    /\ calls < limits.calls
    /\ calls' = calls + 1
    /\ IF depend_on_cb
       THEN scheduler_on_depend_request(current, t)
       ELSE /\ last_op' = Op("depend_on", current, t, FALSE)
            /\ UNCHANGED << state, declared_deps, pending_deps, waiting,
                            ready_queue, declared_order >>
    /\ UNCHANGED << request_key, output_dir, completed, failed, target_error,
                    active_count, envVars, pc, current, result, builds, sessions, mods,
                    exec_count, recorded, first_failed, trace_writes,
                    spawned, built_env, last_build >>

\* umka_ffi_rebuild_register_dep
FfiRegisterDep(p) ==
    /\ UNCHANGED traceVars
    /\ ScriptRunning
    /\ calls < limits.calls
    /\ calls' = calls + 1
    /\ declared_deps' = recipe_add_dependency(declared_deps, current, p)
    /\ pending_deps' = recipe_add_dependency(pending_deps, current, p)
    /\ declared_order' = FirstDeclared(declared_order, current, p)
    /\ last_op' = Op("register_dep", current, p, FALSE)
    /\ UNCHANGED << state, request_key, output_dir, schedVars, envVars, pc, current,
                    result, builds, sessions, mods, exec_count, recorded, first_failed,
                    trace_writes, spawned, built_env, last_build >>

\* umka_ffi_rebuild_sys: scheduler_execute_sys forks and runs the command;
\* the exit code goes back to the script and no scheduler state changes
FfiSys ==
    /\ UNCHANGED traceVars
    /\ ScriptRunning
    /\ calls < limits.calls
    /\ calls' = calls + 1
    /\ spawned' = spawned \cup {current}
    /\ last_op' = Op("sys", current, NULL, FALSE)
    /\ UNCHANGED << recipeVars, schedVars, envVars, pc, current, result, builds,
                    sessions, mods, exec_count, declared_order, recorded,
                    first_failed, trace_writes, built_env, last_build >>

\* ------------------------------------------------------------------------
\* scheduler_on_recipe_complete
\* ------------------------------------------------------------------------
scheduler_resume_recipe(st, w) ==
    IF st[w] = "Suspended" THEN [st EXCEPT ![w] = "Pending"] ELSE st

RECURSIVE NotifyState(_, _)
NotifyState(st, list) ==
    IF list = << >> THEN st
    ELSE NotifyState(scheduler_resume_recipe(st, Head(list)), Tail(list))

\* variant: the walk starts at the second node
waiter_list_notify_all_skip_head(q, list) ==
    IF list = << >> THEN q ELSE q \o Tail(list)

\* the queue_push of scheduler_resume_recipe for each node of the list
waiter_list_notify_all(q, list) == q \o list

\* the dependencies the completion code adds to the trace of r
TraceDeps(r) == << >>

CompletionTrace(r) ==
    [trace_create(request_key[r]) EXCEPT !.deps = TraceDeps(r),
                                         !.output_tree_hash = hash_data("")]

\* variant: waiters are resumed on failure too
QueueAfterCompleteAlways(r, success) ==
    waiter_list_notify_all(ready_queue, waiting[r])

QueueAfterComplete(r, success) ==
    IF success THEN waiter_list_notify_all(ready_queue, waiting[r]) ELSE ready_queue

WaitingAfterComplete(r, success) ==
    IF success THEN [waiting EXCEPT ![r] = << >>] ELSE waiting

RECURSIVE SnapshotFrom(_, _)
SnapshotFrom(order, i) ==
    IF i > Len(order) THEN << >>
    ELSE << [path |-> order[i], content |-> FileContent(order[i])] >>
         \o SnapshotFrom(order, i + 1)

scheduler_on_recipe_complete(r, success) ==
    /\ active_count' = active_count - 1
    /\ ready_queue' = QueueAfterComplete(r, success)
    /\ waiting' = WaitingAfterComplete(r, success)
    /\ IF success
       THEN /\ state' = NotifyState([state EXCEPT ![r] = "Complete"], waiting[r])
            /\ store' = [store EXCEPT ![request_key[r]] = trace_save(CompletionTrace(r))]
            /\ completed' = [completed EXCEPT ![r] = PublishedPath(r, output_dir)]
            /\ recorded' = [recorded EXCEPT ![r] = SnapshotFrom(declared_order[r], 1)]
            /\ trace_writes' = trace_writes \cup {<< r, request_key[r] >>}
            /\ UNCHANGED << failed, target_error, first_failed >>
       ELSE /\ state' = [state EXCEPT ![r] = "Failed"]
            /\ failed' = TRUE
            /\ target_error' = r
            /\ first_failed' = IF first_failed = NULL THEN r ELSE first_failed
            /\ UNCHANGED << store, completed, recorded, trace_writes >>

\* the target function returned: umka_resume_fiber gives UMKA_FIBER_COMPLETE
FiberComplete ==
    /\ UNCHANGED traceVars
    /\ ScriptRunning
    /\ scheduler_on_recipe_complete(current, TRUE)
    /\ pc' = "run"
    /\ last_op' = Op("complete", current, NULL, TRUE)
    /\ built_env' = [built_env EXCEPT ![current] =
                         [code |-> code[current],
                          tool |-> IF current \in spawned THEN tool ELSE 0]]
    /\ UNCHANGED << request_key, declared_deps, pending_deps, output_dir, fs,
                    registry, depend_on_cb, limits, code, tool, current, result,
                    countVars, exec_count, declared_order, spawned, last_build >>

\* no target in the registry, no fiber, or a script error
FiberError ==
    /\ UNCHANGED traceVars
    /\ pc = "script"
    /\ scheduler_on_recipe_complete(current, FALSE)
    /\ pc' = "run"
    /\ last_op' = Op("complete", current, NULL, FALSE)
    /\ UNCHANGED << request_key, declared_deps, pending_deps, output_dir, fs,
                    registry, depend_on_cb, limits, code, tool, current, result,
                    countVars, exec_count, declared_order, spawned, built_env,
                    last_build >>

\* ------------------------------------------------------------------------
\* Environment between builds
\* ------------------------------------------------------------------------
\* the content of a dependency file is changed
ModifyFile(p) ==
    /\ UNCHANGED traceVars
    /\ pc = "idle"
    /\ result = "OK"
    /\ mods < MaxMods
    /\ mods' = mods + 1
    /\ fs' = [fs EXCEPT ![p] = 3 - @]
    /\ last_build' = [last_build EXCEPT !.ok = FALSE]
    /\ last_op' = Op("modify", NULL, p, FALSE)
    /\ UNCHANGED << recipeVars, schedVars, store, registry, depend_on_cb, limits, pc,
                    current, result, calls, builds, sessions, exec_count,
                    declared_order, recorded, first_failed, trace_writes,
                    code, tool, spawned, built_env >>

\* the script code that defines target t is changed
ModifyCode(t) ==
    /\ UNCHANGED traceVars
    /\ pc = "idle"
    /\ result = "OK"
    /\ mods < MaxMods
    /\ mods' = mods + 1
    /\ code' = [code EXCEPT ![t] = 3 - @]
    /\ last_build' = [last_build EXCEPT !.ok = FALSE]
    /\ last_op' = Op("modify_code", t, NULL, FALSE)
    /\ UNCHANGED << recipeVars, schedVars, store, fs, registry, depend_on_cb, limits,
                    tool, pc, current, result, calls, builds, sessions, exec_count,
                    declared_order, recorded, first_failed, trace_writes,
                    spawned, built_env >>

\* the binary of the tool is replaced
ModifyTool ==
    /\ UNCHANGED traceVars
    /\ pc = "idle"
    /\ result = "OK"
    /\ mods < MaxMods
    /\ mods' = mods + 1
    /\ tool' = 3 - tool
    /\ last_build' = [last_build EXCEPT !.ok = FALSE]
    /\ last_op' = Op("modify_tool", NULL, NULL, FALSE)
    /\ UNCHANGED << recipeVars, schedVars, store, fs, registry, depend_on_cb, limits,
                    code, pc, current, result, calls, builds, sessions, exec_count,
                    declared_order, recorded, first_failed, trace_writes,
                    spawned, built_env >>

\* the process ends (scheduler_free) and a new one starts (scheduler_create)
\* against the same store and files
NewSession ==
    /\ UNCHANGED traceVars
    /\ pc = "idle"
    /\ sessions < limits.sessions
    /\ sessions' = sessions + 1
    /\ state' = [t \in Targets |-> "None"]
    /\ request_key' = [t \in Targets |-> ZeroHash]
    /\ declared_deps' = [t \in Targets |-> {}]
    /\ pending_deps' = [t \in Targets |-> {}]
    /\ output_dir' = [t \in Targets |-> NULL_PATH]
    /\ completed' = [t \in Targets |-> NULL_PATH]
    /\ waiting' = [t \in Targets |-> << >>]
    /\ ready_queue' = << >>
    /\ failed' = FALSE
    /\ target_error' = NULL
    /\ active_count' = 0
    /\ current' = NULL
    /\ result' = "none"
    /\ exec_count' = [t \in Targets |-> 0]
    /\ declared_order' = [t \in Targets |-> << >>]
    /\ first_failed' = NULL
    /\ trace_writes' = {}
    /\ spawned' = {}
    /\ last_op' = Op("new_session", NULL, NULL, FALSE)
    /\ UNCHANGED << envVars, pc, calls, builds, mods, recorded, built_env, last_build >>

Next ==
    \/ \E t \in Targets : SchedulerBuild(t)
    \/ RunSkip
    \/ RunExecute
    \/ RunExit
    \/ RunAgain
    \/ \E t \in Targets : FfiDependOn(t)
    \/ \E p \in Paths : FfiRegisterDep(p)
    \/ FfiSys
    \/ FiberComplete
    \/ FiberError

\* what happens between two runs of the program
NextRebuild ==
    \/ Next
    \/ \E p \in Paths : ModifyFile(p)
    \/ \E t \in Targets : ModifyCode(t)
    \/ ModifyTool
    \/ NewSession

\* ------------------------------------------------------------------------
\* A trace saved and loaded again (trace_save, trace_load)
\* ------------------------------------------------------------------------
Path(n, c) == [i \in 1..n |-> c]

\* the empty path, a short one, the longest that trace_load accepts and the
\* next longer one
PathSamples ==
    {Path(0, 97), Path(1, 98), Path(MaxPathLen, 97), Path(MaxPathLen + 1, 97)}

DepSamples == [path : PathSamples, hash : {hash_file("h.txt"), ZeroHash}]

RECURSIVE SeqsUpTo(_, _)
SeqsUpTo(S, n) ==
    IF n = 0 THEN {<< >>}
    ELSE LET shorter == SeqsUpTo(S, n - 1)
         IN  shorter \cup {Append(q, x) : q \in shorter, x \in S}

TraceSamples ==
    [request_key : {ZeroHash, hash_data("A")},
     deps : SeqsUpTo(DepSamples, MaxTraceDeps),
     output_tree_hash : {hash_data("")},
     cpu_time_ms : {0, 5},
     wall_time_ms : {7}]

InitTrace ==
    /\ Start
    /\ registry = Targets
    /\ depend_on_cb = TRUE
    /\ limits = [calls |-> 0, repeat |-> FALSE, sessions |-> 1]
    /\ mem_trace \in TraceSamples
    /\ loaded = NoTrace
    /\ io_pc = "new"
    /\ damage = "none"
    /\ LibOff

TraceSave ==
    /\ io_pc = "new"
    /\ store' = [store EXCEPT ![mem_trace.request_key] = trace_save(mem_trace)]
    /\ io_pc' = "saved"
    /\ UNCHANGED << recipeVars, schedVars, fs, registry, depend_on_cb, limits, code,
                    tool, pc, current, result, countVars, exec_count, declared_order,
                    recorded, first_failed, trace_writes, last_op, spawned,
                    built_env, last_build, mem_trace, loaded, damage, libVars >>

\* what can happen to the file of a trace between its save and a later load:
\* it is removed, cut short (an interrupted write, a full disk), or its magic,
\* version or stored request key is not the one the reader expects. A cut
\* inside a field makes the read of that field fail, as a cut before it does,
\* so cuts are taken at field boundaries and between the bytes of a path.
TruncStride == MaxPathLen \div 4

TruncPoints(f) ==
    {n \in 0..(Len(f) - 1) :
        n <= TruncEdge \/ n >= Len(f) - TruncEdge \/ n % TruncStride = 0}

Damaged(f, kind, n) ==
    CASE kind = "missing" -> NoFile
      [] kind = "truncated" -> SubSeq(f, 1, n)
      [] kind = "magic" -> [f EXCEPT ![n] = 0]
      [] kind = "version" -> [f EXCEPT ![5] = TRACE_VERSION + 1]
      [] kind = "key" -> [f EXCEPT ![6] = hash_data("B")]

DamagePoints(f, kind) ==
    CASE kind = "truncated" -> TruncPoints(f)
      [] kind = "magic" -> 1..4
      [] OTHER -> {0}

TraceDamage(kind, n) ==
    /\ io_pc = "saved"
    /\ damage = "none"
    /\ store' = [store EXCEPT
                    ![mem_trace.request_key] = Damaged(@, kind, n)]
    /\ damage' = kind
    /\ UNCHANGED << recipeVars, schedVars, fs, registry, depend_on_cb, limits, code,
                    tool, pc, current, result, countVars, exec_count, declared_order,
                    recorded, first_failed, trace_writes, last_op, spawned,
                    built_env, last_build, mem_trace, loaded, io_pc, libVars >>

TraceLoad ==
    /\ io_pc = "saved"
    /\ loaded' = trace_load(mem_trace.request_key)
    /\ io_pc' = "loaded"
    /\ UNCHANGED << recipeVars, schedVars, envVars, pc, current, result, countVars,
                    exec_count, declared_order, recorded, first_failed,
                    trace_writes, last_op, spawned, built_env, last_build,
                    mem_trace, damage, libVars >>

DamageKinds == {"missing", "truncated", "magic", "version", "key"}

NextTrace == TraceSave \/ TraceLoad

\* the traces whose files are damaged: paths of 0 and 2 bytes and one that
\* is longer than trace_load accepts
DamageSamples ==
    [request_key : {ZeroHash, hash_data("A")},
     deps : SeqsUpTo([path : {Path(0, 97), Path(2, 98), Path(MaxPathLen + 1, 97)},
                      hash : {hash_file("h.txt")}], MaxTraceDeps),
     output_tree_hash : {hash_data("")},
     cpu_time_ms : {5},
     wall_time_ms : {7}]

InitDamage ==
    /\ SchedulerOff
    /\ mem_trace \in DamageSamples
    /\ loaded = NoTrace
    /\ io_pc = "new"
    /\ damage = "none"
    /\ LibOff

NextDamage ==
    \/ TraceSave
    \/ \E kind \in DamageKinds :
         \E n \in DamagePoints(store[mem_trace.request_key], kind) :
             TraceDamage(kind, n)
    \/ TraceLoad

\* ------------------------------------------------------------------------
\* The request key of a recipe (recipe_compute_request_key)
\* ------------------------------------------------------------------------
\* hash_combine XORs byte i of src into byte i of dest, each byte on its own:
\* a Hash is taken one byte wide here.
RECURSIVE BitXor(_, _, _)
BitXor(a, b, w) ==
    IF w = 0 THEN 0
    ELSE ((a + b) % 2) + 2 * BitXor(a \div 2, b \div 2, w - 1)

hash_combine(dest, src) == BitXor(dest, src, 8)

\* strcmp over the names in use, by their place in byte order
NameRank(name) ==
    CASE name = "A" -> 1
      [] name = "B" -> 2
      [] name = "C" -> 3
      [] name = "D" -> 4
      [] name = "a.c" -> 5
      [] name = "b.h" -> 6
      [] name = "h.txt" -> 7

strcmp(a, b) == NameRank(a) - NameRank(b)

\* qsort with compare_strings / compare_dirent_names
SortNames(names) == SortSeq(names, LAMBDA a, b : strcmp(a, b) < 0)

\* an array that is not grown: what does not fit is dropped
CollectDepsFixedCapacity(iteration) ==
    SubSeq(iteration, 1, IF Len(iteration) < 2 THEN Len(iteration) ELSE 2)

\* set_iterate with collect_dep_callback: every value of declared_deps, in
\* the order of the slots of the set
CollectDeps(iteration) == iteration

RECURSIVE CombineNames(_, _, _)
CombineNames(key, names, i) ==
    IF i > Len(names) THEN key
    ELSE CombineNames(hash_combine(key, hash_data(names[i])), names, i + 1)

\* iteration: the dependencies in the order in which set_iterate visits
\* them, which depends on the order in which they were added
recipe_compute_request_key(code_hash, target_name, iteration) ==
    CombineNames(hash_combine(code_hash, hash_data(target_name)),
                 SortNames(CollectDeps(iteration)), 1)

CodeHashes == {21, 22}
DepNames == {"B", "C", "a.c", "b.h", "h.txt"}

InitKey ==
    /\ SchedulerOff
    /\ NoTraceFile
    /\ CallOff
    /\ io_pc = "new"
    /\ fn_arg \in [code : CodeHashes, name : {"A", "D"}, order : {<< >>}]
    /\ fn_ret = NULL

Range(q) == {q[i] : i \in 1..Len(q)}

\* recipe_add_dependency of a name that is not yet in the set; the worst
\* case is taken for the set: it iterates in the order of insertion
KeyRegister(d) ==
    /\ io_pc = "new"
    /\ Len(fn_arg.order) < MaxKeyDeps
    /\ d \notin Range(fn_arg.order)
    /\ fn_arg' = [fn_arg EXCEPT !.order = Append(@, d)]
    /\ UNCHANGED << buildVars, unitVars, callVars, mem_trace, loaded, io_pc, damage, fn_ret >>

KeyCompute ==
    /\ io_pc = "new"
    /\ fn_ret' = recipe_compute_request_key(fn_arg.code, fn_arg.name, fn_arg.order)
    /\ io_pc' = "computed"
    /\ UNCHANGED << buildVars, unitVars, callVars, mem_trace, loaded, damage, fn_arg >>

NextKey ==
    \/ \E d \in DepNames : KeyRegister(d)
    \/ KeyCompute

\* ------------------------------------------------------------------------
\* A Hash as text (hash_to_hex, hash_from_hex)
\* ------------------------------------------------------------------------
\* Here a Hash is its HashLen bytes and a string the sequence of its
\* characters.
HexDigits == << "0", "1", "2", "3", "4", "5", "6", "7",
               "8", "9", "a", "b", "c", "d", "e", "f" >>
UpperDigits == << "0", "1", "2", "3", "4", "5", "6", "7",
                 "8", "9", "A", "B", "C", "D", "E", "F" >>

\* "%2x": padded with a space
ByteToHexSpacePadded(b) ==
    << IF b < 16 THEN " " ELSE HexDigits[(b \div 16) + 1], HexDigits[(b % 16) + 1] >>

\* sprintf "%02x" of one byte
ByteToHex(b) == << HexDigits[(b \div 16) + 1], HexDigits[(b % 16) + 1] >>

RECURSIVE HexFrom(_, _)
HexFrom(h, i) ==
    IF i > HashLen THEN << >> ELSE ByteToHex(h[i]) \o HexFrom(h, i + 1)

hash_to_hex(h) == HexFrom(h, 1)

isxdigit(c) == \E v \in 1..16 : c = HexDigits[v] \/ c = UpperDigits[v]

\* strtoul in base 16 of one digit
DigitValue(c) == (CHOOSE v \in 1..16 : c = HexDigits[v] \/ c = UpperDigits[v]) - 1

hash_from_hex(hex) ==
    IF Len(hex) # 2 * HashLen THEN [ok |-> FALSE, hash |-> << >>]
    ELSE IF \E i \in 1..Len(hex) : ~isxdigit(hex[i]) THEN [ok |-> FALSE, hash |-> << >>]
    ELSE [ok |-> TRUE,
          hash |-> [i \in 1..HashLen |->
                       16 * DigitValue(hex[2 * i - 1]) + DigitValue(hex[2 * i])]]

\* hashes in which every value of a byte occurs
HashSamples ==
    {[i \in 1..HashLen |-> IF i % 2 = 1 THEN b1 ELSE b2] :
        b1 \in 0..255, b2 \in {0, 171}}

InitHex ==
    /\ SchedulerOff
    /\ NoTraceFile
    /\ CallOff
    /\ io_pc = "new"
    /\ fn_arg \in HashSamples
    /\ fn_ret = NULL

HexEncode ==
    /\ io_pc = "new"
    /\ fn_ret' = [hex |-> hash_to_hex(fn_arg), back |-> NULL]
    /\ io_pc' = "encoded"
    /\ UNCHANGED << buildVars, unitVars, callVars, mem_trace, loaded, damage, fn_arg >>

HexDecode ==
    /\ io_pc = "encoded"
    /\ fn_ret' = [fn_ret EXCEPT !.back = hash_from_hex(fn_ret.hex)]
    /\ io_pc' = "decoded"
    /\ UNCHANGED << buildVars, unitVars, callVars, mem_trace, loaded, damage, fn_arg >>

NextHex == HexEncode \/ HexDecode

\* ------------------------------------------------------------------------
\* The hash of a directory tree (hash_tree)
\* ------------------------------------------------------------------------
\* A path is a node: a regular file with a content, a directory with the
\* entries that readdir returns, in the order in which it returns them, or
\* something else (a socket, an unreadable file) that cannot be hashed.
File(name, c) == [name |-> name, kind |-> "file", content |-> c, sub |-> << >>]
Other(name) == [name |-> name, kind |-> "other", content |-> 0, sub |-> << >>]
Dir(name, entries) == [name |-> name, kind |-> "dir", content |-> 0, sub |-> entries]

\* an array that is not grown: what does not fit is dropped
ReadDirFixedCapacity(entries) ==
    LET kept == SelectSeq(entries, LAMBDA e : e.name \notin {".", ".."})
    IN  SubSeq(kept, 1, IF Len(kept) < 2 THEN Len(kept) ELSE 2)

\* the readdir loop: every entry but . and .., in the order of readdir
ReadDir(entries) == SelectSeq(entries, LAMBDA e : e.name \notin {".", ".."})

\* qsort with compare_dirent_names
SortEntries(entries) == SortSeq(entries, LAMBDA a, b : strcmp(a.name, b.name) < 0)

RECURSIVE hash_tree(_)
RECURSIVE CombineEntries(_, _, _)
CombineEntries(out, entries, i) ==
    IF i > Len(entries) THEN out
    ELSE LET named == hash_combine(out, hash_data(entries[i].name))
             entry == hash_tree(entries[i])
         IN  CombineEntries(IF entry.ok THEN hash_combine(named, entry.hash)
                            ELSE named,
                            entries, i + 1)

hash_tree(node) ==
    CASE node.kind = "file" -> [ok |-> TRUE, hash |-> hash_content(node.content)]
      [] node.kind = "dir" ->
            [ok |-> TRUE,
             hash |-> CombineEntries(ZeroHash, SortEntries(ReadDir(node.sub)), 1)]
      [] OTHER -> [ok |-> FALSE, hash |-> ZeroHash]

\* what an entry of the directory under test can be: a file with either
\* content, something unhashable, or a directory that is empty or holds two
\* files that readdir returns in either order
EntrySamples(name) ==
    {File(name, 1), File(name, 2), Other(name), Dir(name, << >>),
     Dir(name, << File("a.c", 1), File("b.h", 2) >>),
     Dir(name, << File("b.h", 2), File("a.c", 1) >>)}

InitTree ==
    /\ SchedulerOff
    /\ NoTraceFile
    /\ CallOff
    /\ io_pc = "new"
    /\ fn_arg = << Dir(".", << >>), Dir("..", << >>) >>
    /\ fn_ret = NULL

\* an entry is created in the directory; readdir is taken to return the
\* entries in the order of their creation, . and .. first
TreeCreate(e) ==
    /\ io_pc = "new"
    /\ Len(fn_arg) < MaxTreeEntries + 2
    /\ \A i \in 1..Len(fn_arg) : fn_arg[i].name # e.name
    /\ fn_arg' = Append(fn_arg, e)
    /\ UNCHANGED << buildVars, unitVars, callVars, mem_trace, loaded, io_pc, damage, fn_ret >>

TreeHash ==
    /\ io_pc = "new"
    /\ fn_ret' = hash_tree(Dir("", fn_arg))
    /\ io_pc' = "hashed"
    /\ UNCHANGED << buildVars, unitVars, callVars, mem_trace, loaded, damage, fn_arg >>

NextTree ==
    \/ \E name \in Files : \E e \in EntrySamples(name) : TreeCreate(e)
    \/ TreeHash

\* ------------------------------------------------------------------------
\* A trace validated against the files (trace_validate)
\* ------------------------------------------------------------------------
\* dependencies on the files, recorded with the hash of either content
ValidateSamples ==
    [request_key : {hash_data("A")},
     deps : SeqsUpTo([path : Files, hash : {hash_content(1), hash_content(2)}],
                     MaxValidateDeps),
     output_tree_hash : {hash_data("")},
     cpu_time_ms : {5},
     wall_time_ms : {7}]

InitValidate ==
    /\ SchedulerOff
    /\ mem_trace \in ValidateSamples
    /\ loaded = NoTrace
    /\ io_pc = "new"
    /\ damage = "none"
    /\ LibOff

\* a file is rewritten with content c, or removed (c = 0), after the trace
\* was recorded
FileChange(p, c) ==
    /\ io_pc = "new"
    /\ c # fs[p]
    /\ fs' = [fs EXCEPT ![p] = c]
    /\ UNCHANGED << recipeVars, schedVars, store, registry, depend_on_cb, limits,
                    code, tool, pc, current, result, countVars, exec_count,
                    declared_order, recorded, first_failed, trace_writes, last_op,
                    spawned, built_env, last_build, traceVars >>

TraceValidate ==
    /\ io_pc = "new"
    /\ fn_ret' = ValidateWalk(mem_trace.deps, 1, 0)
    /\ io_pc' = "validated"
    /\ UNCHANGED << buildVars, unitVars, callVars, mem_trace, loaded, damage, fn_arg >>

NextValidate ==
    \/ \E p \in Files : \E c \in 0..2 : FileChange(p, c)
    \/ TraceValidate

\* ------------------------------------------------------------------------
\* The paths of the store (storage.c)
\* ------------------------------------------------------------------------
\* A path is the sequence of its pieces, a hex string the sequence of its
\* characters. The processes that share the store each make storage calls;
\* a call is a step that builds the path, then the stat and the mkdir of
\* ensure_directory as two steps that other callers can come between.
Callers == {"p1", "p2"}

\* getpid, as printed with %d
PidOf(p) == IF p = "p1" THEN "100" ELSE "200"

BaseDir == << "rebuild" >>
traces_dir == BaseDir \o << "/", "traces" >>
objects_dir == BaseDir \o << "/", "objects" >>
tmp_dir == BaseDir \o << "/", "tmp" >>

\* the shard is left out: base/hash
build_sharded_path_flat(base_dir, hex_hash) == base_dir \o << "/" >> \o hex_hash

\* asprintf "%s/%s/%s" of base_dir, the first two characters and the rest
build_sharded_path(base_dir, hex_hash) ==
    base_dir \o << "/" >> \o SubSeq(hex_hash, 1, 2)
             \o << "/" >> \o SubSeq(hex_hash, 3, Len(hex_hash))

\* the directory that ensure_shard_directory hands to ensure_directory
ShardDir(base_dir, hex_hash) == base_dir \o << "/" >> \o SubSeq(hex_hash, 1, 2)

\* asprintf "%s/%s_%ld_%d" of storage_get_tmp_dir
TmpName(target_name, now, pid) ==
    tmp_dir \o << "/", target_name, "_", ToString(now), "_", pid >>

\* mkdir that fails on an existing directory fails the call
MkdirStrict(exists) == ~exists

\* what ensure_directory makes of mkdir: the directory is created, or mkdir
\* fails with EEXIST, which is accepted
MkdirAccepted(exists) == TRUE

\* two keys of one shard
StoreKeys == {[i \in 1..HashLen |-> IF i = 1 THEN 12 ELSE b] : b \in {171, 254}}

NoKey == << >>

Idle == [pc |-> "idle", op |-> NULL, key |-> NoKey, target |-> NULL,
         path |-> NULL_PATH, dir |-> NULL_PATH, existed |-> FALSE,
         eexist |-> FALSE, again |-> FALSE, ret |-> NULL_PATH, calls |-> 0]

InitStorage ==
    /\ SchedulerOff
    /\ NoTraceFile
    /\ io_pc = "off"
    /\ fn_arg = NULL
    /\ fn_ret = NULL
    /\ disk = {BaseDir, traces_dir, objects_dir, tmp_dir}
    /\ tools = {}
    /\ caller = [p \in Callers |-> Idle]
    /\ clock = 0
    /\ issued = {}

BaseOf(op) == IF op = "trace" THEN traces_dir ELSE objects_dir

\* storage_get_trace_path / storage_get_object_path up to the call of
\* ensure_directory
StoragePath(p, op, k) ==
    /\ caller[p].pc \in {"idle", "done"}
    /\ caller[p].calls < MaxStorageCalls
    /\ LET hex == hash_to_hex(k)
           dir == ShardDir(BaseOf(op), hex)
       IN  caller' = [caller EXCEPT ![p] =
               [pc |-> "stat", op |-> op, key |-> k, target |-> NULL,
                path |-> build_sharded_path(BaseOf(op), hex), dir |-> dir,
                existed |-> dir \in disk, eexist |-> FALSE, again |-> FALSE,
                ret |-> NULL_PATH, calls |-> @.calls + 1]]
    /\ UNCHANGED << buildVars, unitVars, ioVars, fn_arg, fn_ret, disk, tools, clock,
                    issued >>

\* storage_get_tmp_dir up to the call of ensure_directory
StorageTmpDir(p, t) ==
    /\ caller[p].pc \in {"idle", "done"}
    /\ caller[p].calls < MaxStorageCalls
    /\ LET dir == TmpName(t, clock, PidOf(p))
       IN  caller' = [caller EXCEPT ![p] =
               [pc |-> "stat", op |-> "tmp", key |-> NoKey, target |-> t,
                path |-> dir, dir |-> dir, existed |-> dir \in disk,
                eexist |-> FALSE, again |-> FALSE, ret |-> NULL_PATH,
                calls |-> @.calls + 1]]
    /\ UNCHANGED << buildVars, unitVars, ioVars, fn_arg, fn_ret, disk, tools, clock,
                    issued >>

\* the result of the call c
Returned(c) == [op |-> c.op, key |-> c.key, target |-> c.target, ret |-> c.ret]

\* an earlier call returned the path that c returns
ReturnedBefore(c) == \E r \in issued : r.ret = c.path

\* ensure_directory, the stat: an existing directory ends the call
EnsureStat(p) ==
    /\ caller[p].pc = "stat"
    /\ IF caller[p].dir \in disk
       THEN LET c == [caller[p] EXCEPT !.pc = "done", !.ret = caller[p].path,
                                       !.again = ReturnedBefore(caller[p])]
            IN  caller' = [caller EXCEPT ![p] = c] /\ issued' = issued \cup {Returned(c)}
       ELSE caller' = [caller EXCEPT ![p].pc = "mkdir"] /\ issued' = issued
    /\ UNCHANGED << buildVars, unitVars, ioVars, fn_arg, fn_ret, disk, tools, clock >>

\* ensure_directory, the mkdir and the return of the call
EnsureMkdir(p) ==
    /\ caller[p].pc = "mkdir"
    /\ LET exists == caller[p].dir \in disk
           c == [caller[p] EXCEPT
                    !.pc = "done", !.eexist = exists,
                    !.again = ReturnedBefore(caller[p]),
                    !.ret = IF MkdirAccepted(exists) THEN caller[p].path ELSE NULL_PATH]
       IN  /\ disk' = disk \cup {caller[p].dir}
           /\ caller' = [caller EXCEPT ![p] = c]
           /\ issued' = issued \cup {Returned(c)}
    /\ UNCHANGED << buildVars, unitVars, ioVars, fn_arg, fn_ret, tools, clock >>

\* a second passes
Tick ==
    /\ clock < MaxClock
    /\ clock' = clock + 1
    /\ UNCHANGED << buildVars, unitVars, ioVars, fn_arg, fn_ret, disk, tools, caller,
                    issued >>

NextStorage ==
    \/ \E p \in Callers : \E op \in {"trace", "object"} : \E k \in StoreKeys :
           StoragePath(p, op, k)
    \/ \E p \in Callers : EnsureStat(p)
    \/ \E p \in Callers : EnsureMkdir(p)

NextTmp ==
    \/ \E p \in Callers : \E t \in {"A", "B"} : StorageTmpDir(p, t)
    \/ \E p \in Callers : EnsureStat(p)
    \/ \E p \in Callers : EnsureMkdir(p)
    \/ Tick

\* ------------------------------------------------------------------------
\* The tool registry (tool.c)
\* ------------------------------------------------------------------------
\* The callers are threads that share one ToolManager. tool_manager_load_tool
\* takes no lock: its map_get, its search and hashing, and its map_set are
\* steps that another caller can come between.
ToolNames == {"cc", "ld"}

BinaryPath(name) == << "bin", "/", name >>

\* a ToolModule is known by the call that allocated it
ToolModule(name, p, n) == [name |-> name, by |-> p, call |-> n]
NoTool == [name |-> NULL, by |-> NULL, call |-> 0]

map_get(map, key) ==
    IF \E e \in map : e[1] = key
    THEN (CHOOSE e \in map : e[1] = key)[2]
    ELSE NoTool

\* the value of an existing key is replaced
map_set(map, key, value) == {e \in map : e[1] # key} \cup {<< key, value >>}

Resting == [pc |-> "idle", name |-> NULL, tool |-> NoTool, ret |-> NoTool, calls |-> 0]

InitTool ==
    /\ SchedulerOff
    /\ NoTraceFile
    /\ io_pc = "off"
    /\ fn_arg = NULL
    /\ fn_ret = NULL
    /\ disk \in SUBSET {BinaryPath(n) : n \in ToolNames}
    /\ tools = {}
    /\ caller = [p \in Callers |-> Resting]
    /\ clock = 0
    /\ issued = {}

LoadCall(p, n) ==
    /\ caller[p].pc \in {"idle", "done"}
    /\ caller[p].calls < MaxLoads
    /\ caller' = [caller EXCEPT ![p] =
           [pc |-> "lookup", name |-> n, tool |-> NoTool, ret |-> NoTool,
            calls |-> @.calls + 1]]
    /\ UNCHANGED << buildVars, unitVars, ioVars, fn_arg, fn_ret, disk, tools, clock, issued >>

\* "Check if already loaded"
LoadLookup(p) ==
    /\ caller[p].pc = "lookup"
    /\ LET existing == map_get(tools, caller[p].name)
       IN  IF existing # NoTool
           THEN /\ caller' = [caller EXCEPT ![p].pc = "done", ![p].ret = existing]
                /\ issued' = issued \cup {[name |-> caller[p].name, ret |-> existing]}
           ELSE /\ caller' = [caller EXCEPT ![p].pc = "find"]
                /\ issued' = issued
    /\ UNCHANGED << buildVars, unitVars, ioVars, fn_arg, fn_ret, disk, tools, clock >>

\* tool_manager_find_tool, the new ToolModule and its hashes
LoadFind(p) ==
    /\ caller[p].pc = "find"
    /\ IF BinaryPath(caller[p].name) \in disk
       THEN /\ caller' = [caller EXCEPT
                   ![p].pc = "store",
                   ![p].tool = ToolModule(caller[p].name, p, caller[p].calls)]
            /\ issued' = issued
       ELSE /\ caller' = [caller EXCEPT ![p].pc = "done", ![p].ret = NoTool]
            /\ issued' = issued \cup {[name |-> caller[p].name, ret |-> NoTool]}
    /\ UNCHANGED << buildVars, unitVars, ioVars, fn_arg, fn_ret, disk, tools, clock >>

\* "Store in map" and the return
LoadStore(p) ==
    /\ caller[p].pc = "store"
    /\ tools' = map_set(tools, caller[p].name, caller[p].tool)
    /\ caller' = [caller EXCEPT ![p].pc = "done", ![p].ret = caller[p].tool]
    /\ issued' = issued \cup {[name |-> caller[p].name, ret |-> caller[p].tool]}
    /\ UNCHANGED << buildVars, unitVars, ioVars, fn_arg, fn_ret, disk, clock >>

NextTool ==
    \/ \E p \in Callers : \E n \in ToolNames : LoadCall(p, n)
    \/ \E p \in Callers : LoadLookup(p)
    \/ \E p \in Callers : LoadFind(p)
    \/ \E p \in Callers : LoadStore(p)

\* ------------------------------------------------------------------------
\* The hash table (map.c)
\* ------------------------------------------------------------------------
\* A Map is its array of entries (entry i of the code is element i + 1), its
\* capacity and its two counters. A value is a pointer, known by a name; a
\* key is a string, hashed over its characters.
DEFAULT_MAP_CAPACITY == 16

\* the low 16 bits of the FNV-1a offset basis and prime: with capacities up
\* to 2^16 the index hash % capacity depends on these bits only
HashStringBits == 16
FnvOffset == 40389
FnvPrime == 403

\* the characters of the keys in use
Chars(key) ==
    CASE key = "key_0" -> << 107, 101, 121, 95, 48 >>
      [] key = "key_1" -> << 107, 101, 121, 95, 49 >>
      [] key = "key_2" -> << 107, 101, 121, 95, 50 >>
      [] key = "key_4" -> << 107, 101, 121, 95, 52 >>
      [] key = "A" -> << 65 >>
      [] key = "B" -> << 66 >>
      [] key = "C" -> << 67 >>
      [] key = "D" -> << 68 >>

RECURSIVE FnvFrom(_, _, _)
FnvFrom(hash, str, i) ==
    IF i > Len(str) THEN hash
    ELSE FnvFrom((BitXor(hash, str[i], HashStringBits) * FnvPrime) % 65536, str, i + 1)

\* hash_string over the keys in use
HashedKeys == MapKeys \cup Targets
StringHashes == [key \in HashedKeys |-> FnvFrom(FnvOffset, Chars(key), 1)]

hash_string(key) == StringHashes[key]

\* an entry that was never used
EmptyEntry == [key |-> NULL, value |-> NULL, occupied |-> FALSE]

\* (size_t)(capacity * MAP_MAX_LOAD_FACTOR)
LoadLimit(capacity) == (capacity * 3) \div 4

\* the probe stops at the first removed entry
RECURSIVE ProbeStopsAtTombstone(_, _, _, _, _, _)
ProbeStopsAtTombstone(entries, capacity, key, index, i, tombstone) ==
    IF i >= capacity THEN tombstone
    ELSE LET probe_index == ((index + i) % capacity) + 1
             entry == entries[probe_index]
         IN  IF ~entry.occupied THEN probe_index
             ELSE IF entry.key = key THEN probe_index
             ELSE ProbeStopsAtTombstone(entries, capacity, key, index, i + 1, tombstone)

\* the linear probing of map_find_entry from probe i on; 0 is NULL
RECURSIVE Probe(_, _, _, _, _, _)
Probe(entries, capacity, key, index, i, tombstone) ==
    IF i >= capacity THEN tombstone
    ELSE LET probe_index == ((index + i) % capacity) + 1
             entry == entries[probe_index]
         IN  IF ~entry.occupied
             THEN IF entry.key = NULL
                  THEN IF tombstone # 0 THEN tombstone ELSE probe_index
                  ELSE Probe(entries, capacity, key, index, i + 1,
                             IF tombstone = 0 THEN probe_index ELSE tombstone)
             ELSE IF entry.key = key THEN probe_index
             ELSE Probe(entries, capacity, key, index, i + 1, tombstone)

map_find_entry(entries, capacity, key) ==
    Probe(entries, capacity, key, hash_string(key) % capacity, 0, 0)

\* the rehash loop of map_grow from entry i of the old array on
RECURSIVE Rehash(_, _, _, _)
Rehash(old, i, new_entries, new_capacity) ==
    IF i > Len(old) THEN new_entries
    ELSE IF old[i].occupied /\ old[i].key # NULL
         THEN LET dest == map_find_entry(new_entries, new_capacity, old[i].key)
              IN  Rehash(old, i + 1,
                         [new_entries EXCEPT ![dest] =
                             [key |-> old[i].key, value |-> old[i].value,
                              occupied |-> TRUE]],
                         new_capacity)
         ELSE Rehash(old, i + 1, new_entries, new_capacity)

map_grow(m) ==
    LET new_capacity == IF m.capacity # 0 THEN m.capacity * 2 ELSE DEFAULT_MAP_CAPACITY
        new_entries == Rehash(m.entries, 1, [i \in 1..new_capacity |-> EmptyEntry],
                              new_capacity)
    IN  [entries |-> new_entries, capacity |-> new_capacity,
         size |-> Cardinality({i \in 1..Len(m.entries) :
                                 m.entries[i].occupied /\ m.entries[i].key # NULL}),
         tombstones |-> 0]

\* the capacity of map_create: initial_capacity rounded up to a power of 2
RECURSIVE RoundUp(_, _)
RoundUp(capacity, initial_capacity) ==
    IF capacity < initial_capacity THEN RoundUp(capacity * 2, initial_capacity)
    ELSE capacity

map_create(initial_capacity) ==
    LET capacity == RoundUp(1, IF initial_capacity = 0 THEN DEFAULT_MAP_CAPACITY
                               ELSE initial_capacity)
    IN  [entries |-> [i \in 1..capacity |-> EmptyEntry], capacity |-> capacity,
         size |-> 0, tombstones |-> 0]

\* the Map at the call of map_find_entry in map_set
GrownFor(m) ==
    IF m.size + m.tombstones + 1 > LoadLimit(m.capacity) THEN map_grow(m) ELSE m

\* map_set: the Map it leaves (the Map as grown when no entry is found, the
\* case in which it returns REBUILD_ERROR_MEMORY)
MapSet(m, key, value) ==
    LET g == GrownFor(m)
        entry == map_find_entry(g.entries, g.capacity, key)
    IN  IF entry = 0 THEN g
        ELSE IF ~g.entries[entry].occupied
        THEN [g EXCEPT !.entries[entry] = [key |-> key, value |-> value,
                                           occupied |-> TRUE],
                       !.size = @ + 1]
        ELSE [g EXCEPT !.entries[entry].value = value]

MapSetFails(m, key) ==
    LET g == GrownFor(m) IN map_find_entry(g.entries, g.capacity, key) = 0

\* the entry of key when it is occupied, else 0
OccupiedEntry(m, key) ==
    IF m.size = 0 THEN 0
    ELSE LET entry == map_find_entry(m.entries, m.capacity, key)
         IN  IF entry # 0 /\ m.entries[entry].occupied THEN entry ELSE 0

MapGet(m, key) ==
    IF OccupiedEntry(m, key) = 0 THEN NULL
    ELSE m.entries[OccupiedEntry(m, key)].value

map_has(m, key) == OccupiedEntry(m, key) # 0

\* the size is left as it was
MapRemoveKeepsSize(m, key) ==
    LET entry == OccupiedEntry(m, key)
    IN  IF entry = 0 THEN m
        ELSE [m EXCEPT !.entries[entry].occupied = FALSE,
                       !.entries[entry].value = NULL,
                       !.tombstones = @ + 1]

\* map_remove: the Map it leaves; it returns MapGet(m, key)
MapRemove(m, key) ==
    LET entry == OccupiedEntry(m, key)
    IN  IF entry = 0 THEN m
        ELSE [m EXCEPT !.entries[entry].occupied = FALSE,
                       !.entries[entry].value = NULL,
                       !.size = @ - 1,
                       !.tombstones = @ + 1]

map_size(m) == m.size

\* the values stored: two pointers and NULL, which test_map stores under key_0
MapValues == {"100", "200", NULL}

\* the capacities asked of map_create: the default, 1 and that of big_map
CreateSizes == {0, 1, 4}

InitMap ==
    /\ SchedulerOff
    /\ NoTraceFile
    /\ CallOff
    /\ io_pc = "off"
    /\ fn_arg = NULL
    /\ fn_ret = NULL

MapFrame == UNCHANGED << buildVars, ioVars, callVars, fn_arg, main, heap >>

MapCreate(initial_capacity) ==
    /\ big_map = NoMap
    /\ big_map' = map_create(initial_capacity)
    /\ fn_ret' = [op |-> "create", key |-> NULL, value |-> NULL]
    /\ UNCHANGED contents
    /\ MapFrame

\* a map_set that does not take the Map beyond MaxMapCapacity entries
MapSetCall(key, value) ==
    /\ big_map # NoMap
    /\ GrownFor(big_map).capacity <= MaxMapCapacity
    /\ big_map' = MapSet(big_map, key, value)
    /\ fn_ret' = [op |-> "set", key |-> key,
                  value |-> IF MapSetFails(big_map, key) THEN "ERROR" ELSE "OK"]
    /\ contents' = [contents EXCEPT ![key] = [present |-> TRUE, value |-> value]]
    /\ MapFrame

MapRemoveCall(key) ==
    /\ big_map # NoMap
    /\ big_map' = MapRemove(big_map, key)
    /\ fn_ret' = [op |-> "remove", key |-> key, value |-> MapGet(big_map, key)]
    /\ contents' = [contents EXCEPT ![key] = Absent]
    /\ MapFrame

MapGetCall(key) ==
    /\ big_map # NoMap
    /\ fn_ret' = [op |-> "get", key |-> key, value |-> MapGet(big_map, key)]
    /\ UNCHANGED << big_map, contents >>
    /\ MapFrame

NextMap ==
    \/ \E c \in CreateSizes : MapCreate(c)
    \/ \E k \in MapKeys : \E v \in MapValues : MapSetCall(k, v)
    \/ \E k \in MapKeys : MapRemoveCall(k)
    \/ \E k \in MapKeys : MapGetCall(k)

\* ------------------------------------------------------------------------
\* The target registry (target.c)
\* ------------------------------------------------------------------------
\* registry->targets is the Map; a Target is known by its function name.
FunctionNames == {"f1", "f2"}
RegisteredNames == {"A", "B", "C"}

\* "Remove old target" and target_free of what map_remove returns
RemoveOld(m, name) == IF map_has(m, name) THEN MapRemove(m, name) ELSE m

\* the registry that target_registry_register leaves
target_registry_register(m, name, function_name) ==
    MapSet(RemoveOld(m, name), name, function_name)

target_registry_get(m, name) == MapGet(m, name)

\* target_registry_create
RegistryCreate ==
    /\ big_map = NoMap
    /\ big_map' = map_create(0)
    /\ fn_ret' = [op |-> "create", value |-> NULL, replaced |-> FALSE]
    /\ UNCHANGED << fn_arg, contents >>
    /\ UNCHANGED << buildVars, ioVars, callVars, main, heap >>

\* a registration that does not take the Map beyond MaxTargetsCapacity
RegistryRegister(name, function_name) ==
    /\ big_map # NoMap
    /\ GrownFor(RemoveOld(big_map, name)).capacity <= MaxTargetsCapacity
    /\ big_map' = target_registry_register(big_map, name, function_name)
    /\ fn_arg' = [name |-> name, function_name |-> function_name]
    /\ fn_ret' = [op |-> "register",
                  value |-> IF MapSetFails(RemoveOld(big_map, name), name)
                            THEN "ERROR" ELSE "OK",
                  replaced |-> map_has(big_map, name)]
    /\ UNCHANGED contents
    /\ UNCHANGED << buildVars, ioVars, callVars, main, heap >>

RegistryGet(name) ==
    /\ big_map # NoMap
    /\ fn_arg' = [name |-> name, function_name |-> NULL]
    /\ fn_ret' = [op |-> "get", value |-> target_registry_get(big_map, name),
                  replaced |-> FALSE]
    /\ UNCHANGED << big_map, contents >>
    /\ UNCHANGED << buildVars, ioVars, callVars, main, heap >>

NextRegistry ==
    \/ RegistryCreate
    \/ \E n \in RegisteredNames : \E f \in FunctionNames : RegistryRegister(n, f)
    \/ \E n \in RegisteredNames : RegistryGet(n)

\* ------------------------------------------------------------------------
\* main (main.c): startup, the build, and the cleanup label
\* ------------------------------------------------------------------------
REBUILD_OK == 0
REBUILD_ERROR_IO == 1
REBUILD_ERROR_MEMORY == 2
REBUILD_ERROR_PARSE == 3
REBUILD_ERROR_EXEC == 4

\* an allocation that succeeded, and a call of the free function of o
Create(h, o) == [h EXCEPT ![o].created = TRUE]
Release(h, o) == IF o = NULL THEN h ELSE [h EXCEPT ![o].released = @ + 1]

MainFrame ==
    UNCHANGED << buildVars, ioVars, callVars, fn_arg, fn_ret, big_map, contents >>

\* exit_code = code; goto cleanup
GotoCleanup(error) == [main EXCEPT !.exit_code = error, !.pc = "cleanup"]

\* the words of a command line: the two options that main knows, an option
\* that it does not know, and two target names
Args == {"-h", "--version", "-x", "A", "B"}
CommandLines == UNION {[1..n -> Args] : n \in 0..MaxArgs}

\* the loop over argv[1..]: -h and --version return 0, another word that
\* starts with '-' returns 1, the first other word is the target and a
\* second one returns 1; without a target main returns 1
RECURSIVE ParseArgs(_, _, _)
ParseArgs(argv, i, target_name) ==
    IF i > Len(argv)
    THEN IF target_name = NULL
         THEN [returned |-> TRUE, exit_code |-> 1, target_name |-> NULL]
         ELSE [returned |-> FALSE, exit_code |-> 0, target_name |-> target_name]
    ELSE IF argv[i] \in {"-h", "--version"}
         THEN [returned |-> TRUE, exit_code |-> 0, target_name |-> target_name]
    ELSE IF argv[i] = "-x"
         THEN [returned |-> TRUE, exit_code |-> 1, target_name |-> target_name]
    ELSE IF target_name = NULL
         THEN ParseArgs(argv, i + 1, argv[i])
    ELSE [returned |-> TRUE, exit_code |-> 1, target_name |-> target_name]

\* main reads its command line and returns at once unless it names one
\* target
MainArgs(argv) ==
    /\ main.pc = "off"
    /\ LET parsed == ParseArgs(argv, 1, NULL)
       IN  main' = [main EXCEPT !.target_name = parsed.target_name,
                                !.exit_code = parsed.exit_code,
                                !.pc = IF parsed.returned THEN "exit"
                                       ELSE "storage_init"]
    /\ UNCHANGED heap
    /\ MainFrame

\* step 1: storage = storage_init()
MainStorageInit(ok) ==
    /\ main.pc = "storage_init"
    /\ IF ok
       THEN /\ heap' = Create(heap, "storage")
            /\ main' = [main EXCEPT !.storage = "storage",
                                    !.pc = "tool_manager_create"]
       ELSE /\ main' = GotoCleanup(REBUILD_ERROR_IO)
            /\ UNCHANGED heap
    /\ MainFrame

\* steps 2 and 3: tool_mgr = tool_manager_create(); umka_bridge_init(),
\* which returns REBUILD_OK always
MainToolManagerCreate(ok) ==
    /\ main.pc = "tool_manager_create"
    /\ IF ok
       THEN /\ heap' = Create(heap, "tool_mgr")
            /\ main' = [main EXCEPT !.tool_mgr = "tool_mgr",
                                    !.pc = "scheduler_create"]
       ELSE /\ main' = GotoCleanup(REBUILD_ERROR_MEMORY)
            /\ UNCHANGED heap
    /\ MainFrame

\* what scheduler_create can meet: every allocation succeeds, the Scheduler
\* is not allocated, its ToolManager is not, or one of its maps and its
\* queue is not
SchedulerCreateOutcomes == {"ok", "no_sched", "no_tools", "no_maps"}

\* step 4: scheduler = scheduler_create(storage); scheduler->tools = tool_mgr.
\* scheduler_create makes a ToolManager of its own; when it fails it
\* releases what it allocated: the Scheduler alone when the ToolManager is
\* missing, both through scheduler_free when a map is missing
MainSchedulerCreate(outcome) ==
    /\ main.pc = "scheduler_create"
    /\ CASE outcome = "ok" ->
              /\ heap' = Create(Create(heap, "scheduler"), "sched_tools")
              /\ main' = [main EXCEPT !.scheduler = "scheduler",
                                      !.sched_tools = main.tool_mgr,
                                      !.pc = "find_build_file"]
         [] outcome = "no_sched" ->
              /\ main' = GotoCleanup(REBUILD_ERROR_MEMORY)
              /\ UNCHANGED heap
         [] outcome = "no_tools" ->
              /\ heap' = Release(Create(heap, "scheduler"), "scheduler")
              /\ main' = GotoCleanup(REBUILD_ERROR_MEMORY)
         [] outcome = "no_maps" ->
              /\ heap' = Release(Release(Create(Create(heap, "scheduler"),
                                                "sched_tools"),
                                         "sched_tools"), "scheduler")
              /\ main' = GotoCleanup(REBUILD_ERROR_MEMORY)
    /\ MainFrame

\* step 5, first half: build_file = find_build_file()
MainFindBuildFile(ok) ==
    /\ main.pc = "find_build_file"
    /\ IF ok
       THEN /\ heap' = Create(heap, "build_file")
            /\ main' = [main EXCEPT !.build_file = "build_file",
                                    !.pc = "umka_load_script"]
       ELSE /\ main' = GotoCleanup(REBUILD_ERROR_IO)
            /\ UNCHANGED heap
    /\ MainFrame

\* step 5, second half: umka = umka_load_script(build_file);
\* scheduler->umka = umka
MainLoadScript(ok) ==
    /\ main.pc = "umka_load_script"
    /\ IF ok
       THEN /\ heap' = Create(heap, "umka")
            /\ main' = [main EXCEPT !.umka = "umka",
                                    !.pc = "target_registry_create"]
       ELSE /\ main' = GotoCleanup(REBUILD_ERROR_PARSE)
            /\ UNCHANGED heap
    /\ MainFrame

\* registry = target_registry_create(umka)
MainRegistryCreate(ok) ==
    /\ main.pc = "target_registry_create"
    /\ IF ok
       THEN /\ heap' = Create(heap, "registry")
            /\ main' = [main EXCEPT !.registry = "registry",
                                    !.pc = "register_targets"]
       ELSE /\ main' = GotoCleanup(REBUILD_ERROR_MEMORY)
            /\ UNCHANGED heap
    /\ MainFrame

\* what the script can be: register_targets is missing, it raises an
\* error, or it returns
RegisterOutcomes == {"missing", "error", "ok"}

\* umkaGetFunc(register_targets), umkaCall, and only after both succeeded
\* scheduler->registry = registry
MainRegisterTargets(outcome) ==
    /\ main.pc = "register_targets"
    /\ main' = CASE outcome = "missing" -> GotoCleanup(REBUILD_ERROR_PARSE)
                 [] outcome = "error" -> GotoCleanup(REBUILD_ERROR_EXEC)
                 [] outcome = "ok" ->
                      [main EXCEPT !.sched_registry = main.registry,
                                   !.pc = "scheduler_build"]
    /\ UNCHANGED heap
    /\ MainFrame

\* what scheduler_build returns: REBUILD_OK, REBUILD_ERROR_MEMORY when no
\* Recipe can be made, or REBUILD_ERROR_EXEC from scheduler_run
BuildResults == {REBUILD_OK, REBUILD_ERROR_MEMORY, REBUILD_ERROR_EXEC}

\* steps 7 and 8: err = scheduler_build(scheduler, target_name), and after
\* REBUILD_OK scheduler_run(scheduler), which finds the queue empty and
\* returns REBUILD_OK
MainBuild(err) ==
    /\ main.pc = "scheduler_build"
    /\ main' = GotoCleanup(err)
    /\ UNCHANGED heap
    /\ MainFrame

\* cleanup: if (build_file) rebuild_free(build_file)
MainFreeBuildFile ==
    /\ main.pc = "cleanup"
    /\ heap' = Release(heap, main.build_file)
    /\ main' = [main EXCEPT !.pc = "scheduler_free"]
    /\ MainFrame

\* scheduler_free(sched): tool_manager_free(sched->tools),
\* target_registry_free(sched->registry) if it is set, rebuild_free(sched);
\* nothing in it releases the script instance
scheduler_free(h, m) ==
    IF m.scheduler = NULL THEN h
    ELSE Release(Release(Release(h, m.sched_tools), m.sched_registry),
                 m.scheduler)

\* cleanup: if (scheduler) scheduler_free(scheduler)
MainSchedulerFree ==
    /\ main.pc = "scheduler_free"
    /\ heap' = scheduler_free(heap, main)
    /\ main' = [main EXCEPT !.pc = "tool_manager_free"]
    /\ MainFrame

\* what tool_manager_free does with a ToolManager that was released
\* before: the allocator stops the process, or the memory is released again
DoubleFreeOutcomes == {"abort", "again"}

\* cleanup: if (tool_mgr) tool_manager_free(tool_mgr); umka_bridge_cleanup()
MainToolManagerFree(outcome) ==
    /\ main.pc = "tool_manager_free"
    /\ IF main.tool_mgr # NULL /\ heap[main.tool_mgr].released > 0
       THEN IF outcome = "abort"
            THEN /\ main' = [main EXCEPT !.pc = "aborted"]
                 /\ UNCHANGED heap
            ELSE /\ heap' = Release(heap, main.tool_mgr)
                 /\ main' = [main EXCEPT !.pc = "storage_free"]
       ELSE /\ outcome = "again"
            /\ heap' = Release(heap, main.tool_mgr)
            /\ main' = [main EXCEPT !.pc = "storage_free"]
    /\ MainFrame

\* cleanup: if (storage) storage_free(storage); return exit_code
MainStorageFree ==
    /\ main.pc = "storage_free"
    /\ heap' = Release(heap, main.storage)
    /\ main' = [main EXCEPT !.pc = "exit"]
    /\ MainFrame

NextMain ==
    \/ \E argv \in CommandLines : MainArgs(argv)
    \/ \E ok \in BOOLEAN : MainStorageInit(ok)
    \/ \E ok \in BOOLEAN : MainToolManagerCreate(ok)
    \/ \E outcome \in SchedulerCreateOutcomes : MainSchedulerCreate(outcome)
    \/ \E ok \in BOOLEAN : MainFindBuildFile(ok)
    \/ \E ok \in BOOLEAN : MainLoadScript(ok)
    \/ \E ok \in BOOLEAN : MainRegistryCreate(ok)
    \/ \E outcome \in RegisterOutcomes : MainRegisterTargets(outcome)
    \/ \E err \in BuildResults : MainBuild(err)
    \/ MainFreeBuildFile
    \/ MainSchedulerFree
    \/ \E outcome \in DoubleFreeOutcomes : MainToolManagerFree(outcome)
    \/ MainStorageFree

\* one run of the program: main makes one scheduler_build call
Spec == Init /\ [][Next]_vars

\* The loop of scheduler_run is sequential code: when an iteration or the
\* exit of the loop is possible it is taken. A target function that was
\* called returns, normally or with an error.
Fairness ==
    /\ WF_vars(RunSkip \/ RunExecute \/ RunExit)
    /\ WF_vars(FiberComplete \/ FiberError)

\* one run of the program in which the loop and the scripts go on
SpecLive == InitLive /\ [][Next]_vars /\ Fairness

\* repeated builds on one scheduler and in successive processes
SpecRebuild == InitRebuild /\ [][NextRebuild]_vars

\* every sample trace is saved and then loaded with its own request key
SpecTrace == InitTrace /\ [][NextTrace]_vars

\* every sample trace is saved, its file is damaged or left alone, and it is
\* loaded with its own request key
SpecDamage == InitDamage /\ [][NextDamage]_vars

\* every sample trace is validated against every state of the files
SpecValidate == InitValidate /\ [][NextValidate]_vars

\* dependencies are registered in every order and the request key computed
SpecKey == InitKey /\ [][NextKey]_vars

\* directories are filled in every order and hashed
SpecTree == InitTree /\ [][NextTree]_vars

\* every sample hash is written as text and read back
SpecHex == InitHex /\ [][NextHex]_vars

\* two processes ask the store for paths, their steps interleaved
SpecStorage == InitStorage /\ [][NextStorage]_vars

\* two processes ask the store for temporary directories as time passes
SpecTmp == InitStorage /\ [][NextTmp]_vars

\* two threads load tools from one registry, their steps interleaved
SpecTool == InitTool /\ [][NextTool]_vars

\* a Map is created and set, read and emptied key by key, in every order
SpecMap == InitMap /\ [][NextMap]_vars

\* targets are registered and registered again in one registry
SpecRegistry == InitMap /\ [][NextRegistry]_vars

\* main from its command line to its return, with every failure of a
\* startup step
SpecMain == InitMap /\ [][NextMain]_vars

\* ------------------------------------------------------------------------
\* Properties
\* ------------------------------------------------------------------------
SameScheduler == sessions' = sessions

\* the step is scheduler_on_recipe_complete(current, success)
CompletionStep(success) ==
    /\ pc = "script"
    /\ pc' = "run"
    /\ state'[current] = IF success THEN "Complete" ELSE "Failed"

\* C1: when depend_on(B) has returned to the script of A, B is Complete and
\* completed[B] is published.
C1_DependOnReturnsAfterComplete ==
    (pc = "script" /\ last_op.op = "depend_on")
        => /\ state[last_op.arg] = "Complete"
           /\ completed[last_op.arg] # NULL_PATH

\* C2: on one scheduler, a recipe that is Complete or Failed keeps that state.
C2_TerminalStatesStay ==
    [][SameScheduler =>
          \A t \in Targets :
              state[t] \in {"Complete", "Failed"} => state'[t] = state[t]]_vars

\* C3: in one build no target function is executed more than once, and in
\* the diamond (A on B and C, B on D, C on D) D is executed exactly once.
Diamond ==
    /\ declared_order["A"] = << "B", "C" >>
    /\ declared_order["B"] = << "D" >>
    /\ declared_order["C"] = << "D" >>
    /\ declared_order["D"] = << >>

BuildSucceeded == pc = "idle" /\ result = "OK" /\ builds > 0

C3_ExecutedAtMostOnce ==
    /\ \A t \in Targets : exec_count[t] <= 1
    /\ (Diamond /\ BuildSucceeded /\ state["D"] # "None") => exec_count["D"] = 1

C3_Witness ==
    /\ Diamond
    /\ BuildSucceeded
    /\ \A t \in Targets : state[t] = "Complete" /\ exec_count[t] = 1

\* C4: X = A calls depend_on(P = B) and depend_on(Q = C), B succeeds and C
\* fails; then the build fails naming C, A is neither Complete nor Failed,
\* and no trace was written for A or for C.
C4_FailureIsolation ==
    (/\ pc = "idle"
     /\ declared_order["A"] = << "B", "C" >>
     /\ state["B"] = "Complete"
     /\ state["C"] = "Failed")
        => /\ result = "EXEC"
           /\ target_error = "C"
           /\ state["A"] \notin {"Complete", "Failed"}
           /\ \A w \in trace_writes : w[1] \notin {"A", "C"}

\* C5: after a recipe has failed no recipe is executed on that scheduler,
\* the scheduler_run in progress returns failure, and the failed target
\* reported is the first recipe that failed.
C5_FirstFailureStopsBuild ==
    /\ [][(SameScheduler /\ failed) => exec_count' = exec_count]_vars
    /\ [][(pc = "run" /\ pc' = "idle" /\ failed) => result' = "EXEC"]_vars
    /\ [](failed => (first_failed # NULL /\ target_error = first_failed))

C5_Witness ==
    /\ failed
    /\ pc = "idle"
    /\ result = "EXEC"
    /\ ready_queue # << >>
    /\ target_error = first_failed
    /\ \E t \in Targets : state[t] = "Pending" /\ exec_count[t] = 0

C7_FailureResumesNobody ==
    [][CompletionStep(FALSE) =>
          /\ ready_queue' = ready_queue
          /\ waiting' = waiting
          /\ \A w \in Targets \ {current} : state'[w] = state[w]]_vars

C7_Witness ==
    /\ last_op = Op("complete", "B", NULL, FALSE)
    /\ state["B"] = "Failed"
    /\ waiting["B"] = << "A" >>
    /\ "A" \notin {ready_queue[i] : i \in DOMAIN ready_queue}

\* C8: every change of the state of a recipe on one scheduler is one of the
\* lifecycle edges.
LifecycleEdges ==
    { << "Pending", "Running" >>, << "Running", "Complete" >>,
      << "Running", "Suspended" >>, << "Suspended", "Running" >>,
      << "Running", "Failed" >>, << "Pending", "Complete" >> }

C8_OnlyLifecycleEdges ==
    [][SameScheduler =>
          \A t \in Targets :
              (state[t] # "None" /\ state'[t] # state[t])
                  => << state[t], state'[t] >> \in LifecycleEdges]_vars

\* C9: a build of T served from the cache finds every dependency that the
\* last successful build of T declared with the content it had then.
C9_ChangedDependencyMissesCache ==
    (last_op.op = "probe" /\ last_op.hit)
        => \A i \in DOMAIN recorded[last_op.recipe] :
               FileContent(recorded[last_op.recipe][i].path)
                   = recorded[last_op.recipe][i].content

\* C10: the trace written at the successful completion of R holds R's
\* declared dependencies in the order of first declaration, each with the
\* hash of the path at that time.
ExpectedTraceDeps(r) ==
    [i \in DOMAIN declared_order[r] |->
        [path |-> declared_order[r][i], hash |-> hash_file(declared_order[r][i])]]

C10_TraceHoldsDeclaredDeps ==
    (last_op.op = "complete" /\ last_op.hit)
        => trace_load(request_key[last_op.recipe]).deps
               = ExpectedTraceDeps(last_op.recipe)

\* C11: a build of L1 served from the cache runs under the script code that
\* L1 had at its last successful execution: after the code that defines L1
\* changed, the probe misses.
C11_CodeChangeMissesCache ==
    (last_op.op = "probe" /\ last_op.hit)
        => built_env[last_op.recipe].code = code[last_op.recipe]

\* C12: a build served from the cache finds the tool that the recipe ran at
\* its last successful execution unchanged: after the binary of the tool
\* changed, the probe of a recipe that used it misses.
C12_ToolChangeMissesCache ==
    (last_op.op = "probe" /\ last_op.hit)
        => built_env[last_op.recipe].tool \in {0, tool}

\* C13: when depend_on(B) reaches the scheduler while the store holds a valid
\* trace for B, the call yields B's output path and B is not scheduled for
\* execution.
InQueue(t) == \E i \in DOMAIN ready_queue : ready_queue[i] = t

C13_DependOnServedFromCache ==
    (last_op.op = "depend_on" /\ depend_on_cb /\ CacheHit(last_op.arg))
        => /\ last_op.hit
           /\ completed[last_op.arg] # NULL_PATH
           /\ ~InQueue(last_op.arg)

\* C14: a scheduler_build of T that directly follows a successful build of
\* T, with no change of a file, of the code or of the tool in between,
\* returns success at once: no recipe is executed, no subprocess is spawned.
C14_SecondBuildIsNoOp ==
    [][(builds' = builds + 1 /\ last_build.ok
            /\ last_build'.target = last_build.target)
          => /\ result' = "OK"
             /\ pc' = "idle"
             /\ exec_count' = exec_count
             /\ spawned' = spawned]_vars

\* C15: the clean build of R = A, where A calls depend_on(L1 = B) and
\* depend_on(L2 = C) and B and C declare nothing, executes three recipes,
\* ends with completed = {A, B, C} and leaves three traces in the store, one
\* written by each of A, B and C.
TracesInStore == {k \in Keys : store[k] # NoFile}

Executions == exec_count["A"] + exec_count["B"] + exec_count["C"] + exec_count["D"]

C15_CleanBuildThreeTraces ==
    (/\ pc = "idle"
     /\ result = "OK"
     /\ last_build.target = "A"
     /\ declared_order["A"] = << "B", "C" >>
     /\ declared_order["B"] = << >>
     /\ declared_order["C"] = << >>)
        => /\ Executions = 3
           /\ {t \in Targets : completed[t] # NULL_PATH} = {"A", "B", "C"}
           /\ Cardinality(TracesInStore) = 3
           /\ \A t \in {"A", "B", "C"} : \E w \in trace_writes : w[1] = t

\* C16: in one build, two recipes never write their traces under the same
\* request key.
C16_TraceKeysExclusive ==
    \A w1 \in trace_writes : \A w2 \in trace_writes :
        w1[2] = w2[2] => w1[1] = w2[1]

\* C17: a build in which A declared B and B declared A (or A declared A)
\* does not return success.
DeclaredCycle ==
    \E t \in Targets : \E u \in Targets :
        u \in declared_deps[t] /\ t \in declared_deps[u]

C17_CycleIsNotSuccess ==
    (pc = "idle" /\ result # "none" /\ DeclaredCycle) => result # "OK"

\* C18: when a recipe R has called depend_on(t) for a target t that is not
\* in the registry, the build returns failure and R is not Complete.
C18_UnknownTargetFailsRequester ==
    \A r \in Targets : \A t \in Targets \ registry :
        (pc = "idle" /\ result # "none" /\ t \in declared_deps[r])
            => (result = "EXEC" /\ state[r] # "Complete")

\* C19: a recipe in state Complete has no pending dependency.
C19_CompleteHasNoPending ==
    \A t \in Targets : state[t] = "Complete" => pending_deps[t] = {}

\* C20: a trace that was saved and then loaded with its request key comes
\* back equal in every component, the dependencies in the same order.
C20_TraceRoundTrip ==
    io_pc = "loaded" => loaded = mem_trace

\* C21: trace_load returns a trace only for a complete, well-formed file.
\* When the file is missing, cut short at any position, carries another
\* magic, another version or another request key than the one looked up, or
\* holds a dependency path longer than 4096 bytes, trace_load returns no
\* trace and the probe of the cache for that key is a miss.
LongPath(t) == \E i \in 1..Len(t.deps) : Len(t.deps[i].path) > MaxPathLen

C21_LoadOnlyWellFormed ==
    (io_pc = "loaded" /\ (damage # "none" \/ LongPath(mem_trace)))
        => /\ loaded = NoTrace
           /\ mem_trace.request_key = ProbeKey("A") => ~CacheHit("A")

C21_Witness ==
    /\ io_pc = "loaded"
    /\ damage = "truncated"
    /\ Len(mem_trace.deps) = 1
    /\ mem_trace.request_key = ProbeKey("A")
    /\ Len(store[ProbeKey("A")]) = Len(trace_save(mem_trace)) - 1
    /\ loaded = NoTrace

\* dependency i of the trace under validation exists with the recorded hash
MatchAt(i) ==
    /\ FileContent(mem_trace.deps[i].path) # 0
    /\ hash_file(mem_trace.deps[i].path) = mem_trace.deps[i].hash

Mismatches == {i \in 1..Len(mem_trace.deps) : ~MatchAt(i)}

\* the position k + 1 of the first dependency that does not match
FirstMismatch == CHOOSE i \in Mismatches : \A j \in Mismatches : i <= j

\* C22: when the first k dependencies of a trace match and dependency k + 1
\* does not, trace_validate returns false after hashing exactly k + 1 paths.
C22_HashesUpToFirstMismatch ==
    (io_pc = "validated" /\ Mismatches # {})
        => (fn_ret.valid = FALSE /\ fn_ret.hashed = FirstMismatch)

\* C22 amended: trace_validate returns false at dependency k + 1 and hashes
\* no later path: it has hashed k + 1 paths when dependency k + 1 exists with
\* another content, and k paths when dependency k + 1 is missing.
C22_StopsAtFirstMismatch ==
    (io_pc = "validated" /\ Mismatches # {})
        => /\ fn_ret.valid = FALSE
           /\ fn_ret.hashed =
                  IF FileContent(mem_trace.deps[FirstMismatch].path) = 0
                  THEN FirstMismatch - 1 ELSE FirstMismatch

C22_Witness ==
    /\ io_pc = "validated"
    /\ Len(mem_trace.deps) = 3
    /\ Mismatches = {2, 3}
    /\ FirstMismatch = 2
    /\ FileContent(mem_trace.deps[2].path) # 0
    /\ fn_ret = [valid |-> FALSE, hashed |-> 2]

\* C23: trace_validate returns true exactly when every recorded dependency
\* exists with its recorded hash: true for a trace without dependencies,
\* false as soon as one dependency is missing.
C23_ValidIffAllMatch ==
    io_pc = "validated"
        => (fn_ret.valid = (\A i \in 1..Len(mem_trace.deps) : MatchAt(i)))

C23_Witness ==
    /\ io_pc = "validated"
    /\ Len(mem_trace.deps) = 2
    /\ MatchAt(1)
    /\ FileContent(mem_trace.deps[2].path) = 0
    /\ fn_ret.valid = FALSE

\* the orders in which the dependencies of q can have been registered
Reorderings(q) == {r \in [1..Len(q) -> Range(q)] : Range(r) = Range(q)}

\* C24: for a given code hash, target name and set of dependencies, the
\* request key is the same whatever the order of registration.
C24_KeyIgnoresOrder ==
    io_pc = "computed"
        => \A r \in Reorderings(fn_arg.order) :
               recipe_compute_request_key(fn_arg.code, fn_arg.name, r) = fn_ret

C24_Witness ==
    /\ io_pc = "computed"
    /\ fn_arg.order = << "h.txt", "C", "a.c" >>
    /\ fn_ret = recipe_compute_request_key(fn_arg.code, fn_arg.name,
                                           << "C", "a.c", "h.txt" >>)

\* the sequences that hold the elements of q in another order
Permuted(q) ==
    {[i \in 1..Len(q) |-> q[f[i]]] :
        f \in {g \in [1..Len(q) -> 1..Len(q)] : Range(g) = 1..Len(q)}}

\* an entry with the same name and content whose own entries, when it is a
\* directory, come in another order
Reordered(e) == {[e EXCEPT !.sub = r] : r \in Permuted(e.sub)}

\* the entries of r, each with its own entries in any order
RECURSIVE EachReordered(_)
EachReordered(r) ==
    IF r = << >> THEN {<< >>}
    ELSE {<< e >> \o rest : e \in Reordered(Head(r)), rest \in EachReordered(Tail(r))}

\* the enumerations of a directory with the same names and contents as q
Reenumerations(q) == UNION {EachReordered(r) : r \in Permuted(q)}

\* C25: the tree hash of a directory depends only on the names and the
\* contents it holds, not on the order in which readdir returns the entries
\* of the directory or of its subdirectories.
C25_TreeHashIgnoresOrder ==
    io_pc = "hashed"
        => \A r \in Reenumerations(fn_arg) : hash_tree(Dir("", r)) = fn_ret

C25_Witness ==
    /\ io_pc = "hashed"
    /\ Len(fn_arg) = 5
    /\ fn_arg[3].name = "h.txt"
    /\ fn_arg[4] = Dir("b.h", << File("b.h", 2), File("a.c", 1) >>)
    /\ fn_arg[5] = File("a.c", 2)
    /\ fn_ret.ok
    /\ fn_ret = hash_tree(Dir("", << fn_arg[5], fn_arg[1],
                                      Dir("b.h", << File("a.c", 1), File("b.h", 2) >>),
                                      fn_arg[2], fn_arg[3] >>))

\* C26: hash_from_hex of hash_to_hex of a hash succeeds and gives back the
\* same 32 bytes.
C26_HexRoundTrip ==
    io_pc = "decoded" => fn_ret.back = [ok |-> TRUE, hash |-> fn_arg]

C26_Witness ==
    /\ io_pc = "decoded"
    /\ fn_arg[1] = 10
    /\ fn_arg[2] = 171
    /\ SubSeq(fn_ret.hex, 1, 4) = << "0", "a", "a", "b" >>
    /\ Len(fn_ret.hex) = 64
    /\ fn_ret.back.ok

PathCalls == {r \in issued : r.op \in {"trace", "object"}}

\* C27: calls of trace_path and object_path for keys of one shard all
\* succeed, whatever the interleaving of the stat and mkdir steps of their
\* callers, and return the same path for the same key; a shard directory that
\* another caller created in between is not an error.
C27_ShardRaceTolerated ==
    \A r1 \in PathCalls :
        /\ r1.ret # NULL_PATH
        /\ \A r2 \in PathCalls :
               (r2.op = r1.op /\ r2.key = r1.key) => r2.ret = r1.ret

C27_Witness ==
    /\ caller["p1"].pc = "done" /\ caller["p1"].op = "trace"
    /\ caller["p2"].pc = "done" /\ caller["p2"].op = "trace"
    /\ caller["p1"].key # caller["p2"].key
    /\ caller["p1"].dir = caller["p2"].dir
    /\ ~caller["p1"].existed /\ ~caller["p2"].existed
    /\ caller["p2"].eexist
    /\ caller["p1"].ret # NULL_PATH /\ caller["p2"].ret # NULL_PATH


\* C28: every tmp_dir call returns a directory that did not exist before
\* the call and that no earlier tmp_dir call returned.
C28_TmpDirFresh ==
    \A p \in Callers :
        (caller[p].pc = "done" /\ caller[p].op = "tmp")
            => (~caller[p].existed /\ ~caller[p].again)

IsLowerHex(x) == \A i \in 1..Len(x) : \E v \in 1..16 : x[i] = HexDigits[v]

\* C29: for a key k whose lowercase hex encoding is x, trace_path(k) is
\* <root>/traces/<x[0:2]>/<x[2:64]> and object_path(k) is
\* <root>/objects/<x[0:2]>/<x[2:64]>, and the shard directory exists when
\* the call returns.
C29_ShardedPathLayout ==
    \A p \in Callers :
        (caller[p].pc = "done" /\ caller[p].op \in {"trace", "object"})
            => LET x == hash_to_hex(caller[p].key)
                   sub == IF caller[p].op = "trace" THEN "traces" ELSE "objects"
               IN  /\ Len(x) = 64
                   /\ IsLowerHex(x)
                   /\ caller[p].ret = BaseDir \o << "/", sub, "/", x[1], x[2], "/" >>
                                               \o SubSeq(x, 3, 64)
                   /\ (BaseDir \o << "/", sub, "/", x[1], x[2] >>) \in disk

C29_Witness ==
    \E p \in Callers :
        /\ caller[p].pc = "done"
        /\ caller[p].op = "object"
        /\ caller[p].key[1] = 12
        /\ ~caller[p].existed
        /\ SubSeq(caller[p].ret, 1, 6) = << "rebuild", "/", "objects", "/", "0", "c" >>
        /\ Len(caller[p].ret) = 69
        /\ SubSeq(caller[p].ret, 1, 6) \in disk

\* C30: any two load_tool(n) calls for the same name on one registry,
\* one after the other or overlapping in time, return the same entry, and
\* the registry never holds more than one entry for n.
C30_LoadToolMemoized ==
    /\ \A r1 \in issued : \A r2 \in issued : r1.name = r2.name => r1.ret = r2.ret
    /\ \A n \in ToolNames : Cardinality({e \in tools : e[1] = n}) <= 1

\* C40: the Map is the finite function that the calls made so far define:
\* map_get returns the value of the latest map_set of the key that no
\* map_remove followed, NULL when there is none, map_remove returns what
\* map_get would, and map_size is the number of keys present.
C40_MapIsFiniteFunction ==
    big_map # NoMap
        => /\ \A k \in MapKeys :
                  /\ MapGet(big_map, k) = contents[k].value
                  /\ map_has(big_map, k) = contents[k].present
           /\ map_size(big_map) = Cardinality({k \in MapKeys : contents[k].present})
           /\ fn_ret.op = "get" => fn_ret.value = contents[fn_ret.key].value
           /\ fn_ret.op = "set" => fn_ret.value = "OK"

\* a key removed and set again in the entry it had left, after a growth
C40_Witness ==
    /\ big_map.capacity = 8
    /\ big_map.tombstones > 0
    /\ big_map.size = 3
    /\ fn_ret = [op |-> "get", key |-> "key_4", value |-> "200"]
    /\ Cardinality({i \in 1..8 : /\ ~big_map.entries[i].occupied
                                  /\ big_map.entries[i].key # NULL}) = 1
    /\ big_map.tombstones = 2

\* the occupied entries of the Map for a key
EntriesOf(m, key) ==
    {i \in 1..Len(m.entries) : m.entries[i].occupied /\ m.entries[i].key = key}

\* C31: a registration of a name that the registry holds already leaves
\* exactly one entry for the name, the one with the new function, which
\* lookup returns, and leaves the number of registered targets as it was.
C31_ReRegistrationReplaces ==
    [][(fn_ret'.op = "register" /\ map_has(big_map, fn_arg'.name))
          => /\ fn_ret'.value = "OK"
             /\ Cardinality(EntriesOf(big_map', fn_arg'.name)) = 1
             /\ target_registry_get(big_map', fn_arg'.name) = fn_arg'.function_name
             /\ map_size(big_map') = map_size(big_map)]_vars

\* B was registered with f1 and then with f2 beside another target, and the
\* entry that the first registration used was reused
C31_Witness ==
    /\ big_map # NoMap
    /\ fn_ret.op = "register"
    /\ fn_ret.replaced
    /\ fn_arg = [name |-> "B", function_name |-> "f2"]
    /\ big_map.tombstones = 1
    /\ map_size(big_map) = 2
    /\ target_registry_get(big_map, "B") = "f2"

\* C32: scheduler_run terminates, whatever the targets request of each
\* other, themselves and cycles included: once the loop is entered it is
\* left, with the ready queue empty or the failure flag set.
C32_SchedulerRunTerminates ==
    (pc # "idle") ~> (pc = "idle" /\ (ready_queue = << >> \/ failed))

\* a build that ended after A requested itself and B, and B requested A
C32_Witness ==
    /\ pc = "idle"
    /\ result = "OK"
    /\ declared_deps["A"] = {"A", "B"}
    /\ declared_deps["B"] = {"A"}
    /\ exec_count["A"] = 1 /\ exec_count["B"] = 1
    /\ ready_queue = << >>

\* C33: when scheduler_build has returned success, on a scheduler that
\* served any number of builds, the waiting map is empty and no recipe is
\* Suspended.
C33_SuccessLeavesNobodyWaiting ==
    BuildSucceeded
        => \A t \in Targets : waiting[t] = << >> /\ state[t] # "Suspended"

\* C34: between scheduler operations a recipe is Complete exactly when the
\* completed map holds an output path for its target.
C34_CompleteIffPublished ==
    pc \in {"idle", "run"}
        => \A t \in Targets : (state[t] = "Complete") <=> (completed[t] # NULL_PATH)

\* A is Complete and published by a probe that hit, C by its execution, and
\* B, which failed, is neither
C34_Witness ==
    /\ pc = "idle"
    /\ state["A"] = "Complete" /\ completed["A"] # NULL_PATH /\ exec_count["A"] = 0
    /\ state["C"] = "Complete" /\ completed["C"] # NULL_PATH /\ exec_count["C"] = 1
    /\ state["B"] = "Failed" /\ completed["B"] = NULL_PATH

\* the step is a depend_on request of the running recipe that reaches
\* scheduler_on_depend_request
DependRequestStep ==
    /\ pc = "script"
    /\ depend_on_cb
    /\ calls' = calls + 1
    /\ last_op'.op = "depend_on"

C36_InFlightDependencyNotRequeued ==
    [][(/\ DependRequestStep
        /\ completed[last_op'.arg] = NULL_PATH
        /\ state[last_op'.arg] \in {"Running", "Suspended"})
          => /\ state'[current] = "Suspended"
             /\ waiting' = [waiting EXCEPT ![last_op'.arg] = << current >> \o @]
             /\ ready_queue' = ready_queue
             /\ \A t \in Targets \ {current} : state'[t] = state[t]]_vars

\* A, Suspended since its request for B, has requested itself
C36_Witness ==
    /\ last_op = Op("depend_on", "A", "A", FALSE)
    /\ declared_order["A"] = << "B", "A" >>
    /\ state["A"] = "Suspended"
    /\ waiting["A"] = << "A" >>
    /\ waiting["B"] = << "A" >>
    /\ ready_queue = << "B" >>

\* C37: the path published in completed[T] by a probe of the cache that
\* hit is the output directory of T, the path that an execution of T
\* publishes.
C37_CacheHitPublishesOutputDir ==
    (last_op.op = "probe" /\ last_op.hit)
        => completed[last_op.recipe] = OutDir(last_op.recipe)

\* the directory q with the contents of its entries i and j exchanged
Swapped(q, i, j) ==
    [q EXCEPT ![i].content = q[j].content, ![j].content = q[i].content]

\* C38: a directory and the directory with the same names in which the
\* contents of two files, different from each other, are exchanged have
\* different tree hashes.
C38_TreeHashTellsSwapApart ==
    io_pc = "hashed"
        => \A i \in 1..Len(fn_arg) : \A j \in 1..Len(fn_arg) :
               (/\ fn_arg[i].kind = "file" /\ fn_arg[j].kind = "file"
                /\ fn_arg[i].content # fn_arg[j].content)
                   => hash_tree(Dir("", Swapped(fn_arg, i, j))) # fn_ret

\* the objects that main itself creates and the cleanup label answers for
MainObjects == {"storage", "tool_mgr", "scheduler", "registry"}

\* C39: when main has returned, or was stopped in its cleanup, each of the
\* Storage, ToolManager, Scheduler and TargetRegistry that it created has
\* been released exactly once.
C39_EachObjectReleasedOnce ==
    main.pc \in {"exit", "aborted"}
        => \A o \in MainObjects : heap[o].created => heap[o].released = 1

====
